---- MODULE Spec2Model ----
(***************************************************************************)
(* A model of rag-mobile: the intent router (retrival/llm_router.py), the  *)
(* fusion engine, the reranker and the result cache (retrival/re_rank.py), *)
(* the chat endpoint (api.py), the conversation memory                     *)
(* (generation/llm_stm.py), the generation model (generation/model.py)     *)
(* and the corpus the ingestion script writes (data/core.py).              *)
(*                                                                         *)
(* Texts are sequences of Unicode code points, so that trimming and the   *)
(* regular expressions of the router are computed and not assumed.         *)
(***************************************************************************)
EXTENDS Integers, Sequences, FiniteSets, TLC

VARIABLES
    \* ---- Router.classify (one call) ----
    user_input,   \* the utterance classify was called with
    pc,           \* "idle" | "call" | "retry" | "done" | "raised"
    attempt,      \* the loop variable of classify (1 .. max_retries + 1)
    calls,        \* how many times self.llm.invoke has been called
    failures,     \* how many attempts ended in a parse/validation failure
    messages,     \* the messages the next invoke sends
    sent,         \* the messages every invoke so far was given, in order
    result,       \* what classify returned (NoResult before it returns)
    via,          \* what produced the result: "fast" | "model" | "fallback" ("none" before)
    accepted,     \* the answer of the model that validated (NoRaw if none did)
    short_comparisons, \* how many attempts the model answered with a comparison of
                  \* fewer than two usable product names
    unidata_version, \* unicodedata.unidata_version of the interpreter the service runs on
    \* ---- result cache, HybridSearch.query, ReRank.query ----
    cache,        \* the diskcache store: key -> entry or NoEntry
    now,          \* the clock, in seconds
    nticks,       \* how many times the clock has advanced
    index,        \* the corpus the two indexes answer from: what they answer TheQuery with
    \* ---- pure functions: fusion and rerank_chunk_level ----
    inp,          \* the inputs of the call
    out,          \* its outputs (NoOut before the call)
    \* ---- the chat endpoint and ChatWithMemory ----
    memory,       \* the MemorySaver checkpoints: thread_id -> stored messages
    next_id,      \* the next fresh message id (a uuid or a run id in the code)
    nreqs,        \* how many requests the chat endpoint has taken
    turn,         \* requester -> its request to the chat endpoint or its run of
                  \* the workflow: how far it has come and what it did
    threads,      \* thread id -> "unused" | "issued" (handed out by the endpoint)
                  \* | "known" (sent to a client in a control line)
    \* ---- the shared generation model (ChatLLM and its LLM) ----
    stream_flag,  \* self._llm.stream
    gen,          \* thread -> its call of _generate or _stream in progress, or its last one
    ngen,         \* thread -> how many calls it has started
    \* ---- requests in flight on the event loop (asyncio) ----
    inflight,     \* task -> where its coroutine is suspended, its local variables,
                  \* and what its call found and did
    writes,       \* key -> the last cache.set of the key
    calls_left    \* requester -> how many calls it has still to make

routerVars == <<user_input, pc, attempt, calls, failures, messages, sent, result, via, accepted,
                short_comparisons, unidata_version>>
cacheVars == <<cache, now, nticks, index>>
pureVars == <<inp, out>>
memVars == <<memory, next_id, nreqs, turn, threads>>
llmVars == <<stream_flag, gen, ngen>>
concVars == <<inflight, writes, calls_left>>
vars == <<user_input, pc, attempt, calls, failures, messages, sent, result, via, accepted,
          short_comparisons, unidata_version, cache, now, nticks, index, inp, out,
          memory, next_id, nreqs, turn, threads, stream_flag, gen, ngen, inflight, writes, calls_left>>

-----------------------------------------------------------------------------
(* Texts *)

\* Python None, where a str is expected
PyNone == "<None>"

\* the code points c for which chr(c).isspace() holds: what \s matches and what
\* str.strip() removes (TAB LF VT FF CR, FS GS RS US, SPACE, NEL, NBSP, and the
\* space separators of Unicode)
SpaceChars ==
    { 9, 10, 11, 12, 13, 28, 29, 30, 31, 32, 133, 160, 5760,
      8192, 8193, 8194, 8195, 8196, 8197, 8198, 8199, 8200, 8201, 8202, 8232, 8233, 8239, 8287, 12288 }

\* The Unicode databases the service can run on. \w, and with it the \b of the
\* chat patterns, is read from the database of the interpreter; the f-string of
\* tools/comparison_tool.py (a backslash inside a replacement field) needs
\* Python 3.12 or later, whose database is 15.0.0; Python 3.13 has 15.1.0; 17.0.0
\* is the newest database. A database between two of these matches a set of
\* code points between theirs.
UnidataVersions == {"15.0.0", "15.1.0", "17.0.0"}

\* the code points \w matches in a str pattern under the database 15.0.0, as
\* closed ranges: those for which chr(c).isalnum() holds (the letters and the
\* numbers of the database), and the underscore
WordRanges ==
    {
      <<48, 57>>, <<65, 90>>, <<95, 95>>, <<97, 122>>, <<170, 170>>, <<178, 179>>,
      <<181, 181>>, <<185, 186>>, <<188, 190>>, <<192, 214>>, <<216, 246>>, <<248, 705>>,
      <<710, 721>>, <<736, 740>>, <<748, 748>>, <<750, 750>>, <<880, 884>>, <<886, 887>>,
      <<890, 893>>, <<895, 895>>, <<902, 902>>, <<904, 906>>, <<908, 908>>, <<910, 929>>,
      <<931, 1013>>, <<1015, 1153>>, <<1162, 1327>>, <<1329, 1366>>, <<1369, 1369>>,
      <<1376, 1416>>, <<1488, 1514>>, <<1519, 1522>>, <<1568, 1610>>, <<1632, 1641>>,
      <<1646, 1647>>, <<1649, 1747>>, <<1749, 1749>>, <<1765, 1766>>, <<1774, 1788>>,
      <<1791, 1791>>, <<1808, 1808>>, <<1810, 1839>>, <<1869, 1957>>, <<1969, 1969>>,
      <<1984, 2026>>, <<2036, 2037>>, <<2042, 2042>>, <<2048, 2069>>, <<2074, 2074>>,
      <<2084, 2084>>, <<2088, 2088>>, <<2112, 2136>>, <<2144, 2154>>, <<2160, 2183>>,
      <<2185, 2190>>, <<2208, 2249>>, <<2308, 2361>>, <<2365, 2365>>, <<2384, 2384>>,
      <<2392, 2401>>, <<2406, 2415>>, <<2417, 2432>>, <<2437, 2444>>, <<2447, 2448>>,
      <<2451, 2472>>, <<2474, 2480>>, <<2482, 2482>>, <<2486, 2489>>, <<2493, 2493>>,
      <<2510, 2510>>, <<2524, 2525>>, <<2527, 2529>>, <<2534, 2545>>, <<2548, 2553>>,
      <<2556, 2556>>, <<2565, 2570>>, <<2575, 2576>>, <<2579, 2600>>, <<2602, 2608>>,
      <<2610, 2611>>, <<2613, 2614>>, <<2616, 2617>>, <<2649, 2652>>, <<2654, 2654>>,
      <<2662, 2671>>, <<2674, 2676>>, <<2693, 2701>>, <<2703, 2705>>, <<2707, 2728>>,
      <<2730, 2736>>, <<2738, 2739>>, <<2741, 2745>>, <<2749, 2749>>, <<2768, 2768>>,
      <<2784, 2785>>, <<2790, 2799>>, <<2809, 2809>>, <<2821, 2828>>, <<2831, 2832>>,
      <<2835, 2856>>, <<2858, 2864>>, <<2866, 2867>>, <<2869, 2873>>, <<2877, 2877>>,
      <<2908, 2909>>, <<2911, 2913>>, <<2918, 2927>>, <<2929, 2935>>, <<2947, 2947>>,
      <<2949, 2954>>, <<2958, 2960>>, <<2962, 2965>>, <<2969, 2970>>, <<2972, 2972>>,
      <<2974, 2975>>, <<2979, 2980>>, <<2984, 2986>>, <<2990, 3001>>, <<3024, 3024>>,
      <<3046, 3058>>, <<3077, 3084>>, <<3086, 3088>>, <<3090, 3112>>, <<3114, 3129>>,
      <<3133, 3133>>, <<3160, 3162>>, <<3165, 3165>>, <<3168, 3169>>, <<3174, 3183>>,
      <<3192, 3198>>, <<3200, 3200>>, <<3205, 3212>>, <<3214, 3216>>, <<3218, 3240>>,
      <<3242, 3251>>, <<3253, 3257>>, <<3261, 3261>>, <<3293, 3294>>, <<3296, 3297>>,
      <<3302, 3311>>, <<3313, 3314>>, <<3332, 3340>>, <<3342, 3344>>, <<3346, 3386>>,
      <<3389, 3389>>, <<3406, 3406>>, <<3412, 3414>>, <<3416, 3425>>, <<3430, 3448>>,
      <<3450, 3455>>, <<3461, 3478>>, <<3482, 3505>>, <<3507, 3515>>, <<3517, 3517>>,
      <<3520, 3526>>, <<3558, 3567>>, <<3585, 3632>>, <<3634, 3635>>, <<3648, 3654>>,
      <<3664, 3673>>, <<3713, 3714>>, <<3716, 3716>>, <<3718, 3722>>, <<3724, 3747>>,
      <<3749, 3749>>, <<3751, 3760>>, <<3762, 3763>>, <<3773, 3773>>, <<3776, 3780>>,
      <<3782, 3782>>, <<3792, 3801>>, <<3804, 3807>>, <<3840, 3840>>, <<3872, 3891>>,
      <<3904, 3911>>, <<3913, 3948>>, <<3976, 3980>>, <<4096, 4138>>, <<4159, 4169>>,
      <<4176, 4181>>, <<4186, 4189>>, <<4193, 4193>>, <<4197, 4198>>, <<4206, 4208>>,
      <<4213, 4225>>, <<4238, 4238>>, <<4240, 4249>>, <<4256, 4293>>, <<4295, 4295>>,
      <<4301, 4301>>, <<4304, 4346>>, <<4348, 4680>>, <<4682, 4685>>, <<4688, 4694>>,
      <<4696, 4696>>, <<4698, 4701>>, <<4704, 4744>>, <<4746, 4749>>, <<4752, 4784>>,
      <<4786, 4789>>, <<4792, 4798>>, <<4800, 4800>>, <<4802, 4805>>, <<4808, 4822>>,
      <<4824, 4880>>, <<4882, 4885>>, <<4888, 4954>>, <<4969, 4988>>, <<4992, 5007>>,
      <<5024, 5109>>, <<5112, 5117>>, <<5121, 5740>>, <<5743, 5759>>, <<5761, 5786>>,
      <<5792, 5866>>, <<5870, 5880>>, <<5888, 5905>>, <<5919, 5937>>, <<5952, 5969>>,
      <<5984, 5996>>, <<5998, 6000>>, <<6016, 6067>>, <<6103, 6103>>, <<6108, 6108>>,
      <<6112, 6121>>, <<6128, 6137>>, <<6160, 6169>>, <<6176, 6264>>, <<6272, 6276>>,
      <<6279, 6312>>, <<6314, 6314>>, <<6320, 6389>>, <<6400, 6430>>, <<6470, 6509>>,
      <<6512, 6516>>, <<6528, 6571>>, <<6576, 6601>>, <<6608, 6618>>, <<6656, 6678>>,
      <<6688, 6740>>, <<6784, 6793>>, <<6800, 6809>>, <<6823, 6823>>, <<6917, 6963>>,
      <<6981, 6988>>, <<6992, 7001>>, <<7043, 7072>>, <<7086, 7141>>, <<7168, 7203>>,
      <<7232, 7241>>, <<7245, 7293>>, <<7296, 7304>>, <<7312, 7354>>, <<7357, 7359>>,
      <<7401, 7404>>, <<7406, 7411>>, <<7413, 7414>>, <<7418, 7418>>, <<7424, 7615>>,
      <<7680, 7957>>, <<7960, 7965>>, <<7968, 8005>>, <<8008, 8013>>, <<8016, 8023>>,
      <<8025, 8025>>, <<8027, 8027>>, <<8029, 8029>>, <<8031, 8061>>, <<8064, 8116>>,
      <<8118, 8124>>, <<8126, 8126>>, <<8130, 8132>>, <<8134, 8140>>, <<8144, 8147>>,
      <<8150, 8155>>, <<8160, 8172>>, <<8178, 8180>>, <<8182, 8188>>, <<8304, 8305>>,
      <<8308, 8313>>, <<8319, 8329>>, <<8336, 8348>>, <<8450, 8450>>, <<8455, 8455>>,
      <<8458, 8467>>, <<8469, 8469>>, <<8473, 8477>>, <<8484, 8484>>, <<8486, 8486>>,
      <<8488, 8488>>, <<8490, 8493>>, <<8495, 8505>>, <<8508, 8511>>, <<8517, 8521>>,
      <<8526, 8526>>, <<8528, 8585>>, <<9312, 9371>>, <<9450, 9471>>, <<10102, 10131>>,
      <<11264, 11492>>, <<11499, 11502>>, <<11506, 11507>>, <<11517, 11517>>, <<11520, 11557>>,
      <<11559, 11559>>, <<11565, 11565>>, <<11568, 11623>>, <<11631, 11631>>, <<11648, 11670>>,
      <<11680, 11686>>, <<11688, 11694>>, <<11696, 11702>>, <<11704, 11710>>, <<11712, 11718>>,
      <<11720, 11726>>, <<11728, 11734>>, <<11736, 11742>>, <<11823, 11823>>, <<12293, 12295>>,
      <<12321, 12329>>, <<12337, 12341>>, <<12344, 12348>>, <<12353, 12438>>, <<12445, 12447>>,
      <<12449, 12538>>, <<12540, 12543>>, <<12549, 12591>>, <<12593, 12686>>, <<12690, 12693>>,
      <<12704, 12735>>, <<12784, 12799>>, <<12832, 12841>>, <<12872, 12879>>, <<12881, 12895>>,
      <<12928, 12937>>, <<12977, 12991>>, <<13312, 19903>>, <<19968, 42124>>, <<42192, 42237>>,
      <<42240, 42508>>, <<42512, 42539>>, <<42560, 42606>>, <<42623, 42653>>, <<42656, 42735>>,
      <<42775, 42783>>, <<42786, 42888>>, <<42891, 42954>>, <<42960, 42961>>, <<42963, 42963>>,
      <<42965, 42969>>, <<42994, 43009>>, <<43011, 43013>>, <<43015, 43018>>, <<43020, 43042>>,
      <<43056, 43061>>, <<43072, 43123>>, <<43138, 43187>>, <<43216, 43225>>, <<43250, 43255>>,
      <<43259, 43259>>, <<43261, 43262>>, <<43264, 43301>>, <<43312, 43334>>, <<43360, 43388>>,
      <<43396, 43442>>, <<43471, 43481>>, <<43488, 43492>>, <<43494, 43518>>, <<43520, 43560>>,
      <<43584, 43586>>, <<43588, 43595>>, <<43600, 43609>>, <<43616, 43638>>, <<43642, 43642>>,
      <<43646, 43695>>, <<43697, 43697>>, <<43701, 43702>>, <<43705, 43709>>, <<43712, 43712>>,
      <<43714, 43714>>, <<43739, 43741>>, <<43744, 43754>>, <<43762, 43764>>, <<43777, 43782>>,
      <<43785, 43790>>, <<43793, 43798>>, <<43808, 43814>>, <<43816, 43822>>, <<43824, 43866>>,
      <<43868, 43881>>, <<43888, 44002>>, <<44016, 44025>>, <<44032, 55203>>, <<55216, 55238>>,
      <<55243, 55291>>, <<63744, 64109>>, <<64112, 64217>>, <<64256, 64262>>, <<64275, 64279>>,
      <<64285, 64285>>, <<64287, 64296>>, <<64298, 64310>>, <<64312, 64316>>, <<64318, 64318>>,
      <<64320, 64321>>, <<64323, 64324>>, <<64326, 64433>>, <<64467, 64829>>, <<64848, 64911>>,
      <<64914, 64967>>, <<65008, 65019>>, <<65136, 65140>>, <<65142, 65276>>, <<65296, 65305>>,
      <<65313, 65338>>, <<65345, 65370>>, <<65382, 65470>>, <<65474, 65479>>, <<65482, 65487>>,
      <<65490, 65495>>, <<65498, 65500>>, <<65536, 65547>>, <<65549, 65574>>, <<65576, 65594>>,
      <<65596, 65597>>, <<65599, 65613>>, <<65616, 65629>>, <<65664, 65786>>, <<65799, 65843>>,
      <<65856, 65912>>, <<65930, 65931>>, <<66176, 66204>>, <<66208, 66256>>, <<66273, 66299>>,
      <<66304, 66339>>, <<66349, 66378>>, <<66384, 66421>>, <<66432, 66461>>, <<66464, 66499>>,
      <<66504, 66511>>, <<66513, 66517>>, <<66560, 66717>>, <<66720, 66729>>, <<66736, 66771>>,
      <<66776, 66811>>, <<66816, 66855>>, <<66864, 66915>>, <<66928, 66938>>, <<66940, 66954>>,
      <<66956, 66962>>, <<66964, 66965>>, <<66967, 66977>>, <<66979, 66993>>, <<66995, 67001>>,
      <<67003, 67004>>, <<67072, 67382>>, <<67392, 67413>>, <<67424, 67431>>, <<67456, 67461>>,
      <<67463, 67504>>, <<67506, 67514>>, <<67584, 67589>>, <<67592, 67592>>, <<67594, 67637>>,
      <<67639, 67640>>, <<67644, 67644>>, <<67647, 67669>>, <<67672, 67702>>, <<67705, 67742>>,
      <<67751, 67759>>, <<67808, 67826>>, <<67828, 67829>>, <<67835, 67867>>, <<67872, 67897>>,
      <<67968, 68023>>, <<68028, 68047>>, <<68050, 68096>>, <<68112, 68115>>, <<68117, 68119>>,
      <<68121, 68149>>, <<68160, 68168>>, <<68192, 68222>>, <<68224, 68255>>, <<68288, 68295>>,
      <<68297, 68324>>, <<68331, 68335>>, <<68352, 68405>>, <<68416, 68437>>, <<68440, 68466>>,
      <<68472, 68497>>, <<68521, 68527>>, <<68608, 68680>>, <<68736, 68786>>, <<68800, 68850>>,
      <<68858, 68899>>, <<68912, 68921>>, <<69216, 69246>>, <<69248, 69289>>, <<69296, 69297>>,
      <<69376, 69415>>, <<69424, 69445>>, <<69457, 69460>>, <<69488, 69505>>, <<69552, 69579>>,
      <<69600, 69622>>, <<69635, 69687>>, <<69714, 69743>>, <<69745, 69746>>, <<69749, 69749>>,
      <<69763, 69807>>, <<69840, 69864>>, <<69872, 69881>>, <<69891, 69926>>, <<69942, 69951>>,
      <<69956, 69956>>, <<69959, 69959>>, <<69968, 70002>>, <<70006, 70006>>, <<70019, 70066>>,
      <<70081, 70084>>, <<70096, 70106>>, <<70108, 70108>>, <<70113, 70132>>, <<70144, 70161>>,
      <<70163, 70187>>, <<70207, 70208>>, <<70272, 70278>>, <<70280, 70280>>, <<70282, 70285>>,
      <<70287, 70301>>, <<70303, 70312>>, <<70320, 70366>>, <<70384, 70393>>, <<70405, 70412>>,
      <<70415, 70416>>, <<70419, 70440>>, <<70442, 70448>>, <<70450, 70451>>, <<70453, 70457>>,
      <<70461, 70461>>, <<70480, 70480>>, <<70493, 70497>>, <<70656, 70708>>, <<70727, 70730>>,
      <<70736, 70745>>, <<70751, 70753>>, <<70784, 70831>>, <<70852, 70853>>, <<70855, 70855>>,
      <<70864, 70873>>, <<71040, 71086>>, <<71128, 71131>>, <<71168, 71215>>, <<71236, 71236>>,
      <<71248, 71257>>, <<71296, 71338>>, <<71352, 71352>>, <<71360, 71369>>, <<71424, 71450>>,
      <<71472, 71483>>, <<71488, 71494>>, <<71680, 71723>>, <<71840, 71922>>, <<71935, 71942>>,
      <<71945, 71945>>, <<71948, 71955>>, <<71957, 71958>>, <<71960, 71983>>, <<71999, 71999>>,
      <<72001, 72001>>, <<72016, 72025>>, <<72096, 72103>>, <<72106, 72144>>, <<72161, 72161>>,
      <<72163, 72163>>, <<72192, 72192>>, <<72203, 72242>>, <<72250, 72250>>, <<72272, 72272>>,
      <<72284, 72329>>, <<72349, 72349>>, <<72368, 72440>>, <<72704, 72712>>, <<72714, 72750>>,
      <<72768, 72768>>, <<72784, 72812>>, <<72818, 72847>>, <<72960, 72966>>, <<72968, 72969>>,
      <<72971, 73008>>, <<73030, 73030>>, <<73040, 73049>>, <<73056, 73061>>, <<73063, 73064>>,
      <<73066, 73097>>, <<73112, 73112>>, <<73120, 73129>>, <<73440, 73458>>, <<73474, 73474>>,
      <<73476, 73488>>, <<73490, 73523>>, <<73552, 73561>>, <<73648, 73648>>, <<73664, 73684>>,
      <<73728, 74649>>, <<74752, 74862>>, <<74880, 75075>>, <<77712, 77808>>, <<77824, 78895>>,
      <<78913, 78918>>, <<82944, 83526>>, <<92160, 92728>>, <<92736, 92766>>, <<92768, 92777>>,
      <<92784, 92862>>, <<92864, 92873>>, <<92880, 92909>>, <<92928, 92975>>, <<92992, 92995>>,
      <<93008, 93017>>, <<93019, 93025>>, <<93027, 93047>>, <<93053, 93071>>, <<93760, 93846>>,
      <<93952, 94026>>, <<94032, 94032>>, <<94099, 94111>>, <<94176, 94177>>, <<94179, 94179>>,
      <<94208, 100343>>, <<100352, 101589>>, <<101632, 101640>>, <<110576, 110579>>,
      <<110581, 110587>>, <<110589, 110590>>, <<110592, 110882>>, <<110898, 110898>>,
      <<110928, 110930>>, <<110933, 110933>>, <<110948, 110951>>, <<110960, 111355>>,
      <<113664, 113770>>, <<113776, 113788>>, <<113792, 113800>>, <<113808, 113817>>,
      <<119488, 119507>>, <<119520, 119539>>, <<119648, 119672>>, <<119808, 119892>>,
      <<119894, 119964>>, <<119966, 119967>>, <<119970, 119970>>, <<119973, 119974>>,
      <<119977, 119980>>, <<119982, 119993>>, <<119995, 119995>>, <<119997, 120003>>,
      <<120005, 120069>>, <<120071, 120074>>, <<120077, 120084>>, <<120086, 120092>>,
      <<120094, 120121>>, <<120123, 120126>>, <<120128, 120132>>, <<120134, 120134>>,
      <<120138, 120144>>, <<120146, 120485>>, <<120488, 120512>>, <<120514, 120538>>,
      <<120540, 120570>>, <<120572, 120596>>, <<120598, 120628>>, <<120630, 120654>>,
      <<120656, 120686>>, <<120688, 120712>>, <<120714, 120744>>, <<120746, 120770>>,
      <<120772, 120779>>, <<120782, 120831>>, <<122624, 122654>>, <<122661, 122666>>,
      <<122928, 122989>>, <<123136, 123180>>, <<123191, 123197>>, <<123200, 123209>>,
      <<123214, 123214>>, <<123536, 123565>>, <<123584, 123627>>, <<123632, 123641>>,
      <<124112, 124139>>, <<124144, 124153>>, <<124896, 124902>>, <<124904, 124907>>,
      <<124909, 124910>>, <<124912, 124926>>, <<124928, 125124>>, <<125127, 125135>>,
      <<125184, 125251>>, <<125259, 125259>>, <<125264, 125273>>, <<126065, 126123>>,
      <<126125, 126127>>, <<126129, 126132>>, <<126209, 126253>>, <<126255, 126269>>,
      <<126464, 126467>>, <<126469, 126495>>, <<126497, 126498>>, <<126500, 126500>>,
      <<126503, 126503>>, <<126505, 126514>>, <<126516, 126519>>, <<126521, 126521>>,
      <<126523, 126523>>, <<126530, 126530>>, <<126535, 126535>>, <<126537, 126537>>,
      <<126539, 126539>>, <<126541, 126543>>, <<126545, 126546>>, <<126548, 126548>>,
      <<126551, 126551>>, <<126553, 126553>>, <<126555, 126555>>, <<126557, 126557>>,
      <<126559, 126559>>, <<126561, 126562>>, <<126564, 126564>>, <<126567, 126570>>,
      <<126572, 126578>>, <<126580, 126583>>, <<126585, 126588>>, <<126590, 126590>>,
      <<126592, 126601>>, <<126603, 126619>>, <<126625, 126627>>, <<126629, 126633>>,
      <<126635, 126651>>, <<127232, 127244>>, <<130032, 130041>>, <<131072, 173791>>,
      <<173824, 177977>>, <<177984, 178205>>, <<178208, 183969>>, <<183984, 191456>>,
      <<194560, 195101>>, <<196608, 201546>>, <<201552, 205743>>
    }

\* the code points \w matches under a later database and not under 15.0.0: the
\* letters and numbers assigned since (15.1.0: CJK extension I; 17.0.0: those,
\* and the scripts and letters of 16.0.0 and 17.0.0)
LaterWordRanges(version) ==
    CASE version = "15.0.0" -> {}
      [] version = "15.1.0" ->
            { <<191472, 192093>> }
      [] version = "17.0.0" ->
            {
              <<2191, 2191>>, <<3164, 3164>>, <<3292, 3292>>, <<7305, 7306>>, <<42955, 42959>>,
              <<42962, 42962>>, <<42964, 42964>>, <<42970, 42972>>, <<42993, 42993>>,
              <<67008, 67059>>, <<67904, 67929>>, <<68928, 68965>>, <<68975, 68997>>,
              <<69314, 69319>>, <<70528, 70537>>, <<70539, 70539>>, <<70542, 70542>>,
              <<70544, 70581>>, <<70583, 70583>>, <<70609, 70609>>, <<70611, 70611>>,
              <<71376, 71395>>, <<72640, 72672>>, <<72688, 72697>>, <<73136, 73179>>,
              <<73184, 73193>>, <<78944, 82938>>, <<90368, 90397>>, <<90416, 90425>>,
              <<93504, 93548>>, <<93552, 93561>>, <<93856, 93880>>, <<93883, 93907>>,
              <<94194, 94198>>, <<100344, 100351>>, <<101631, 101631>>, <<101641, 101662>>,
              <<101760, 101874>>, <<118000, 118009>>, <<124368, 124397>>, <<124400, 124410>>,
              <<124608, 124638>>, <<124640, 124642>>, <<124644, 124645>>, <<124647, 124653>>,
              <<124656, 124660>>, <<124670, 124671>>, <<177978, 177983>>, <<183970, 183981>>,
              <<191472, 192093>>, <<205744, 210041>>
            }

IsSpace(c) == c \in SpaceChars

IsWord(c) ==
    \/ \E r \in WordRanges : r[1] <= c /\ c <= r[2]
    \/ \E r \in LaterWordRanges(unidata_version) : r[1] <= c /\ c <= r[2]

\* re.IGNORECASE on a str pattern: <<p, c>> is here when the code point c is not
\* p and matches the literal p of a chat pattern (the other case of the letter
\* and, for i, k and s, the dotted and dotless I, the Kelvin sign and the long s)
CaseVariants ==
    {
      <<97, 65>>, <<98, 66>>, <<99, 67>>, <<101, 69>>, <<103, 71>>, <<104, 72>>, <<105, 73>>,
      <<105, 304>>, <<105, 305>>, <<107, 75>>, <<107, 8490>>, <<108, 76>>, <<109, 77>>,
      <<110, 78>>, <<111, 79>>, <<113, 81>>, <<115, 83>>, <<115, 383>>, <<116, 84>>,
      <<117, 85>>, <<118, 86>>, <<121, 89>>, <<224, 192>>, <<225, 193>>, <<234, 202>>,
      <<236, 204>>, <<417, 416>>, <<7841, 7840>>, <<7843, 7842>>, <<7879, 7878>>,
      <<7889, 7888>>, <<7901, 7900>>
    }

\* the character c matches the literal p of a pattern compiled with re.IGNORECASE
MatchesLiteral(c, p) == c = p \/ <<p, c>> \in CaseVariants

\* the index of the first character of s that is not whitespace, Len(s) + 1 if none
FirstNonSpace(s) ==
    IF \E i \in 1..Len(s) : ~IsSpace(s[i])
    THEN CHOOSE i \in 1..Len(s) :
            /\ ~IsSpace(s[i])
            /\ \A j \in 1..(i - 1) : IsSpace(s[j])
    ELSE Len(s) + 1

\* the index of the last character of s that is not whitespace, 0 if none
LastNonSpace(s) ==
    IF \E i \in 1..Len(s) : ~IsSpace(s[i])
    THEN CHOOSE i \in 1..Len(s) :
            /\ ~IsSpace(s[i])
            /\ \A j \in (i + 1)..Len(s) : IsSpace(s[j])
    ELSE 0

\* str.strip()
Strip(s) ==
    IF LastNonSpace(s) = 0 THEN <<>>
    ELSE SubSeq(s, FirstNonSpace(s), LastNonSpace(s))

\* the literal w of a pattern matches s at index i, ignoring case
MatchAt(s, i, w) ==
    /\ i >= 1
    /\ i + Len(w) - 1 <= Len(s)
    /\ \A j \in 1..Len(w) : MatchesLiteral(s[i + j - 1], w[j])

\* \b holds between s[i-1] and s[i]
BoundaryAt(s, i) ==
    LET before == i > 1 /\ i - 1 <= Len(s) /\ IsWord(s[i - 1])
        after == i >= 1 /\ i <= Len(s) /\ IsWord(s[i])
    IN before # after

\* s[i..] is whitespace only
OnlySpaceFrom(s, i) == \A j \in i..Len(s) : IsSpace(s[j])

-----------------------------------------------------------------------------
(* CHAT_PATTERNS *)

\* chào | hi | hello | alo
GreetingWords ==
    { <<99, 104, 224, 111>>,
      <<104, 105>>,
      <<104, 101, 108, 108, 111>>,
      <<97, 108, 111>> }

\* cảm ơn | thank you | thanks
ThanksWords ==
    { <<99, 7843, 109, 32, 417, 110>>,
      <<116, 104, 97, 110, 107, 32, 121, 111, 117>>,
      <<116, 104, 97, 110, 107, 115>> }

\* tạm biệt | bye
FarewellWords ==
    { <<116, 7841, 109, 32, 98, 105, 7879, 116>>,
      <<98, 121, 101>> }

\* bạn là ai | bạn tên gì
IdentityWords ==
    { <<98, 7841, 110, 32, 108, 224, 32, 97, 105>>,
      <<98, 7841, 110, 32, 116, 234, 110, 32, 103, 236>> }

\* oke | ok | tuyệt vời | tốt quá
AckWords ==
    { <<111, 107, 101>>,
      <<111, 107>>,
      <<116, 117, 121, 7879, 116, 32, 118, 7901, 105>>,
      <<116, 7889, 116, 32, 113, 117, 225>> }

\* ^\s*(w1|w2|...)\b
MatchesPrefixWord(s, words) ==
    \E w \in words :
        /\ MatchAt(s, FirstNonSpace(s), w)
        /\ BoundaryAt(s, FirstNonSpace(s) + Len(w))

\* \b(w1|w2|...)\b anywhere in s
MatchesWordAnywhere(s, words) ==
    \E i \in 1..Len(s) : \E w \in words :
        /\ MatchAt(s, i, w)
        /\ BoundaryAt(s, i)
        /\ BoundaryAt(s, i + Len(w))

\* ^\s*(w1|w2|...)\s*$
MatchesWholeWord(s, words) ==
    \E w \in words :
        /\ MatchAt(s, FirstNonSpace(s), w)
        /\ OnlySpaceFrom(s, FirstNonSpace(s) + Len(w))

\* any(p.search(user_input) for p in CHAT_PATTERNS)
MatchesChatPattern(s) ==
    \/ MatchesPrefixWord(s, GreetingWords)
    \/ MatchesWordAnywhere(s, ThanksWords)
    \/ MatchesWordAnywhere(s, FarewellWords)
    \/ MatchesWordAnywhere(s, IdentityWords)
    \/ MatchesWholeWord(s, AckWords)

-----------------------------------------------------------------------------
(* JSON values the model can answer with *)

Absent == [t |-> "absent"]

NullV == [t |-> "null"]

StrV(s) == [t |-> "str", v |-> s]

ListV(l) == [t |-> "list", v |-> l]

NoResult == [router |-> "<no result>"]

TxtEmpty == <<>>
TxtBlank == <<32>>
TxtX == <<120>>
TxtPaddedX == <<32, 120, 32>>
TxtA == <<97>>
TxtB == <<98>>
TxtPaddedA == <<32, 97, 32>>

RouterValues ==
    { Absent, NullV, StrV("chat"), StrV("retrieval"), StrV("comparison"), StrV("other") }

InforValues ==
    { Absent, NullV, StrV(TxtEmpty), StrV(TxtBlank), StrV(TxtX), StrV(TxtPaddedX) }

ProductsValues ==
    { Absent, StrV(TxtA), ListV(<<>>), ListV(<<TxtA>>), ListV(<<TxtA, TxtBlank>>),
      ListV(<<TxtA, TxtB>>), ListV(<<TxtPaddedA, TxtB, TxtEmpty>>) }

\* a JSON object with (some of) the keys router, infor, products
ObjectValues ==
    [t : {"obj"}, router : RouterValues, infor : InforValues, products : ProductsValues]

\* a JSON value that is not an object, such as 42
ScalarValue == [t |-> "scalar"]

NoValue == [t |-> "none"]

\* how the text of an answer carries its JSON value:
\*   json            the value alone, as valid JSON
\*   fenced          valid JSON inside a ```json fence
\*   wrapped         valid JSON with prose before and after
\*   trailing_comma  valid JSON but for a comma before the closing brace
\*   single_quoted   the Python literal of the object (single quotes, None)
\*   truncated       valid JSON cut before the closing brace
ValueForms == {"json", "fenced", "wrapped", "trailing_comma", "single_quoted", "truncated"}

\* answers without a value: invoke raising, "", whitespace only, prose without JSON
PlainForms == {"raise", "empty", "blank", "prose"}

RawOutputs ==
    [form : PlainForms, val : {NoValue}]
        \cup [form : ValueForms, val : ObjectValues]
        \cup [form : {"json"}, val : {ScalarValue}]

NumKeys(val) ==
    (IF val.router.t = "absent" THEN 0 ELSE 1)
        + (IF val.infor.t = "absent" THEN 0 ELSE 1)
        + (IF val.products.t = "absent" THEN 0 ELSE 1)

ParseError == [t |-> "error"]

\* extract_json_like followed by strict_json_load: the value, or ParseError when
\* json.loads raises on the text and on the repaired text.  The repairs turn a
\* trailing comma and None/True/False into JSON; of the single-quoted keys they
\* reach only the one that follows the opening brace.
StrictJsonLoad(raw) ==
    CASE raw.form \in {"json", "fenced", "wrapped", "trailing_comma"} -> raw.val
      [] raw.form = "single_quoted" ->
            IF NumKeys(raw.val) <= 1 THEN raw.val ELSE ParseError
      [] OTHER -> ParseError

-----------------------------------------------------------------------------
(* OUTPUT_SCHEMAS *)

IsStr(f) == f.t = "str"

\* ChatOutput.parse_obj(parsed) does not raise
ChatOutputValid(parsed) ==
    /\ parsed.t = "obj"
    /\ IsStr(parsed.router) /\ parsed.router.v = "chat"
    /\ IsStr(parsed.infor)

\* the value the validator router_must_be_chat hands back for the field
RouterMustBeChat(v) == PyNone

\* ChatOutput(...).dict()
ChatOutputDict(parsed) ==
    [router |-> RouterMustBeChat(parsed.router.v), infor |-> parsed.infor,
     products |-> Absent]

\* RetrievalOutput.parse_obj(parsed) does not raise
RetrievalOutputValid(parsed) ==
    /\ parsed.t = "obj"
    /\ IsStr(parsed.router) /\ parsed.router.v = "retrieval"
    /\ IsStr(parsed.infor)
    /\ parsed.infor.v # <<>> /\ Strip(parsed.infor.v) # <<>>

RetrievalOutputDict(parsed) ==
    [router |-> parsed.router.v, infor |-> parsed.infor, products |-> Absent]

\* [p.strip() for p in v if p and p.strip()]
RECURSIVE Cleaned(_)
Cleaned(v) ==
    IF v = <<>> THEN <<>>
    ELSE IF Head(v) # <<>> /\ Strip(Head(v)) # <<>>
         THEN <<Strip(Head(v))>> \o Cleaned(Tail(v))
         ELSE Cleaned(Tail(v))

\* a products validator that counts the names without cleaning them
ComparisonOutputValidUncleaned(parsed) ==
    /\ parsed.t = "obj"
    /\ IsStr(parsed.router) /\ parsed.router.v = "comparison"
    /\ parsed.products.t = "list"
    /\ Len(parsed.products.v) >= 2

\* ComparisonOutput.parse_obj(parsed) does not raise
ComparisonOutputValid(parsed) ==
    /\ parsed.t = "obj"
    /\ IsStr(parsed.router) /\ parsed.router.v = "comparison"
    /\ parsed.products.t = "list"
    /\ Len(parsed.products.v) >= 2
    /\ Len(Cleaned(parsed.products.v)) >= 2

ComparisonOutputDict(parsed) ==
    [router |-> parsed.router.v, infor |-> Absent,
     products |-> ListV(Cleaned(parsed.products.v))]

\* Router._parse_and_validate: the canonical dict of the first schema that
\* validates, or NoResult (None) with an error
ParseAndValidate(raw) ==
    IF raw.form \in {"empty", "blank"} THEN NoResult
    ELSE LET parsed == StrictJsonLoad(raw)
         IN IF parsed = ParseError THEN NoResult
            ELSE IF ChatOutputValid(parsed) THEN ChatOutputDict(parsed)
            ELSE IF RetrievalOutputValid(parsed) THEN RetrievalOutputDict(parsed)
            ELSE IF ComparisonOutputValid(parsed) THEN ComparisonOutputDict(parsed)
            ELSE NoResult

-----------------------------------------------------------------------------
(* Router *)

\* Router.__init__: max_retries
max_retries == 2

\* a fast path that forgets to trim the utterance
RuleBasedFastpathUntrimmed(u) ==
    IF MatchesChatPattern(u)
    THEN [router |-> "chat", infor |-> StrV(u), products |-> Absent]
    ELSE NoResult

\* Router._rule_based_fastpath
RuleBasedFastpath(u) ==
    IF MatchesChatPattern(u)
    THEN [router |-> "chat", infor |-> StrV(Strip(u)), products |-> Absent]
    ELSE NoResult

\* Router._build_messages
BuildMessages(u) == [system |-> "router prompt", user |-> u]

\* a retry that sends the first attempt's messages again
StrictMessagesPlainPrompt(u) == BuildMessages(u)

\* the escalated messages of a retry
StrictMessages(u) == [system |-> "router prompt + strict addition", user |-> u]

\* a fallback that forgets to trim the utterance
FallbackUntrimmed(u) == [router |-> "retrieval", infor |-> StrV(u), products |-> Absent]

\* the safe default classify ends with
Fallback(u) == [router |-> "retrieval", infor |-> StrV(Strip(u)), products |-> Absent]

NoMessages == [system |-> "", user |-> <<>>]

\* the answer carries an object tagged comparison whose products are not a list
\* of at least two names that are non-empty after trimming
IsShortComparison(raw) ==
    /\ raw.form \in ValueForms
    /\ raw.val.t = "obj"
    /\ raw.val.router = StrV("comparison")
    /\ \/ raw.val.products.t # "list"
       \/ Len(Cleaned(raw.val.products.v)) < 2

NoRaw == [form |-> "none", val |-> NoValue]

Utterances ==
    {
      <<>>,    \* ""
      <<32, 32>>,    \* "  "
      <<120>>,    \* "x"
      <<32, 120, 32>>,    \* " x "
      <<104, 105>>,    \* "hi"
      <<32, 104, 105, 32>>,    \* " hi "
      <<72, 105, 33>>,    \* "Hi!"
      <<104, 105, 120>>,    \* "hix"
      <<120, 32, 104, 105>>,    \* "x hi"
      <<111, 107>>,    \* "ok"
      <<9, 79, 75, 10>>,    \* "\u0009OK\u000a"
      <<111, 107, 32, 120>>,    \* "ok x"
      <<120, 32, 98, 121, 101, 32>>,    \* "x bye "
      <<120, 98, 121, 101>>,    \* "xbye"
      <<99, 104, 224, 111, 32, 120>>,    \* "chào x"
      <<32, 116, 104, 97, 110, 107, 115, 46>>,    \* " thanks."
      <<111, 107, 13, 10>>,    \* "ok\u000d\u000a"
      <<120, 45, 98, 121, 101>>,    \* "x-bye"
      <<104, 105, 58>>,    \* "hi:"
      <<40, 116, 104, 97, 110, 107, 115, 41>>,    \* "(thanks)"
      <<67, 72, 192, 79>>,    \* "CHÀO"
      <<67, 7842, 77, 32, 416, 78>>,    \* "CẢM ƠN"
      <<84, 7840, 77, 32, 66, 73, 7878, 84>>,    \* "TẠM BIỆT"
      <<84, 7889, 116, 32, 81, 117, 225, 133>>,    \* "Tốt Quá\u0085"
      <<12288, 111, 107, 160>>,    \* "\u3000ok\u00a0"
      <<31, 120, 8195>>,    \* "\u001fx\u2003"
      <<104, 304>>,    \* "h\u0130"
      <<111, 8490>>,    \* "o\u212a"
      <<104, 105, 95>>,    \* "hi_"
      <<104, 105, 769>>,    \* "hi\u0301"
      <<98, 121, 101, 65298>>,    \* "bye\uff12"
      <<104, 105, 201552>>,    \* "hi\U00031350": a letter since 15.0.0
      <<32, 104, 105, 191472>>,    \* " hi\U0002ebf0": a letter since 15.1.0
      <<97, 108, 111, 67904, 10>>,    \* "alo\U00010940\u000a": a letter since 17.0.0
      <<98, 121, 101, 327680>>,    \* "bye\U00050000": not assigned
      <<98, 7841, 110, 32, 108, 224, 32, 97, 105, 63>>     \* "bạn là ai?"
    }
InitRouter ==
    /\ user_input \in Utterances
    /\ unidata_version \in UnidataVersions
    /\ pc = "call"
    /\ attempt = 1
    /\ calls = 0
    /\ failures = 0
    /\ messages = NoMessages
    /\ sent = <<>>
    /\ result = NoResult
    /\ via = "none"
    /\ accepted = NoRaw
    /\ short_comparisons = 0

\* classify, step 1: the fast path matched and classify returns the rule
ClassifyFastPath ==
    /\ pc = "call"
    /\ RuleBasedFastpath(user_input) # NoResult
    /\ result' = RuleBasedFastpath(user_input)
    /\ via' = "fast"
    /\ pc' = "done"
    /\ UNCHANGED <<user_input, attempt, calls, failures, messages, sent, accepted,
                   short_comparisons, unidata_version>>
    /\ UNCHANGED <<cacheVars, pureVars, memVars, llmVars, concVars>>

\* classify, step 2: one iteration of the loop, the model answering raw; the
\* last failing iteration falls through to the fallback of step 3
ClassifyAttempt(raw) ==
    /\ \/ pc = "call" /\ RuleBasedFastpath(user_input) = NoResult
       \/ pc = "retry"
    /\ attempt <= max_retries + 1
    /\ LET msgs == IF pc = "call" THEN BuildMessages(user_input) ELSE messages
           parsed == ParseAndValidate(raw)
       IN /\ calls' = calls + 1
          /\ sent' = Append(sent, msgs)
          /\ short_comparisons' =
                IF IsShortComparison(raw) THEN short_comparisons + 1 ELSE short_comparisons
          /\ IF raw.form = "raise"
             THEN \* self.llm.invoke raised: nothing in classify catches it
                  /\ pc' = "raised"
                  /\ messages' = msgs
                  /\ UNCHANGED <<attempt, failures, result, via, accepted>>
             ELSE IF parsed # NoResult
             THEN /\ result' = parsed
                  /\ via' = "model"
                  /\ accepted' = raw
                  /\ pc' = "done"
                  /\ messages' = msgs
                  /\ UNCHANGED <<attempt, failures>>
             ELSE /\ failures' = failures + 1
                  /\ UNCHANGED accepted
                  /\ messages' = StrictMessages(user_input)
                  /\ IF attempt = max_retries + 1
                     THEN /\ result' = Fallback(user_input)
                          /\ via' = "fallback"
                          /\ pc' = "done"
                          /\ UNCHANGED attempt
                     ELSE /\ attempt' = attempt + 1
                          /\ pc' = "retry"
                          /\ UNCHANGED <<result, via>>
    /\ UNCHANGED <<user_input, unidata_version>>
    /\ UNCHANGED <<cacheVars, pureVars, memVars, llmVars, concVars>>

IdleRouter ==
    /\ user_input = <<>>
    /\ pc = "idle"
    /\ attempt = 1
    /\ calls = 0
    /\ failures = 0
    /\ messages = NoMessages
    /\ sent = <<>>
    /\ result = NoResult
    /\ via = "none"
    /\ accepted = NoRaw
    /\ short_comparisons = 0
    /\ unidata_version = "15.0.0"

-----------------------------------------------------------------------------
(* Passages and the result lists of the two indexes *)

\* the largest topK the model gives HybridSearch and rerank_chunk_level
MaxTopK == 2

\* the largest score the relevance model gives
MaxScore == 3

\* two chunks of product p1, one of p2, and one whose metadata has no product_id
P1a == [id |-> "d1", product_id |-> "p1"]
P1b == [id |-> "d2", product_id |-> "p1"]
P2 == [id |-> "d3", product_id |-> "p2"]
PNone == [id |-> "d4", product_id |-> PyNone]

Passages == { P1a, P1b, P2, PNone }

PassageIds == { d.id : d \in Passages }

\* doc.metadata.get("product_id")
Pid(doc) == doc.product_id

IsInjective(s) == \A i, j \in 1..Len(s) : i # j => s[i] # s[j]

\* the lists of at most n different passages
ResultLists(n) ==
    UNION { { s \in [1..m -> Passages] : IsInjective(s) } : m \in 0..n }

\* the set of the elements of a sequence
Range(s) == { s[i] : i \in 1..Len(s) }

\* how many passages of list s belong to product pid
CountPid(s, pid) == Cardinality({ i \in 1..Len(s) : Pid(s[i]) = pid })

-----------------------------------------------------------------------------
(* The fusion of HybridSearch.query.  score_dict and doc_dict are one          *)
(* sequence of [pid, score, doc] in insertion order, as a Python dict keeps it. *)

HasKey(d, pid) == \E i \in 1..Len(d) : d[i].pid = pid

\* an accumulation that assigns the weight instead of adding it
AccumulateOverwrite(d, doc, w) ==
    IF HasKey(d, Pid(doc))
    THEN [i \in 1..Len(d) |->
            IF d[i].pid = Pid(doc)
            THEN [pid |-> d[i].pid, score |-> w, doc |-> doc]
            ELSE d[i]]
    ELSE Append(d, [pid |-> Pid(doc), score |-> w, doc |-> doc])

\* score_dict[pid] = score_dict.get(pid, 0) + w ; doc_dict[pid] = doc
Accumulate(d, doc, w) ==
    IF HasKey(d, Pid(doc))
    THEN [i \in 1..Len(d) |->
            IF d[i].pid = Pid(doc)
            THEN [pid |-> d[i].pid, score |-> d[i].score + w, doc |-> doc]
            ELSE d[i]]
    ELSE Append(d, [pid |-> Pid(doc), score |-> 0 + w, doc |-> doc])

\* for doc in docs: accumulate
RECURSIVE AccumulateAll(_, _, _)
AccumulateAll(d, docs, w) ==
    IF docs = <<>> THEN d
    ELSE AccumulateAll(Accumulate(d, Head(docs), w), Tail(docs), w)

\* an insertion in front of the entries of equal score: a sort that is not stable
InsertDescTiesFirst(sorted, e) ==
    LET n == Cardinality({ i \in 1..Len(sorted) : sorted[i].score > e.score })
    IN SubSeq(sorted, 1, n) \o <<e>> \o SubSeq(sorted, n + 1, Len(sorted))

\* e put into the list sorted (descending by score) behind every entry that
\* does not score less: sorted(..., reverse=True) is stable
InsertDesc(sorted, e) ==
    LET n == Cardinality({ i \in 1..Len(sorted) : sorted[i].score >= e.score })
    IN SubSeq(sorted, 1, n) \o <<e>> \o SubSeq(sorted, n + 1, Len(sorted))

\* sorted(d.items(), key=lambda x: x[1], reverse=True)
RECURSIVE SortedDesc(_)
SortedDesc(d) ==
    IF d = <<>> THEN <<>>
    ELSE InsertDesc(SortedDesc(SubSeq(d, 1, Len(d) - 1)), d[Len(d)])

\* a slice that is forgotten
PrefixAll(s, n) == s

\* s[:n]
Prefix(s, n) == SubSeq(s, 1, IF n < Len(s) THEN n ELSE Len(s))

\* the weight of a vector hit: 1 - bm25_weight, weights counted in tenths
VectorWeight(bm25_weight) == 10 - bm25_weight

\* score_dict (with doc_dict) after both loops
ScoreDict(bm25_docs, vector_docs, bm25_weight) ==
    AccumulateAll(AccumulateAll(<<>>, bm25_docs, bm25_weight),
                  vector_docs, VectorWeight(bm25_weight))

\* result = [doc_dict[pid] for pid, _ in sorted_pids[:k]]
Fusion(bm25_docs, vector_docs, bm25_weight, k) ==
    LET top == Prefix(SortedDesc(ScoreDict(bm25_docs, vector_docs, bm25_weight)), k)
    IN [i \in 1..Len(top) |-> top[i].doc]

\* bm25_weight in tenths: the default 0.5, and 0.3
Weights == {5, 3}

NoOut == [fn |-> "none"]

NoInp == [fn |-> "none"]

InitFusion ==
    /\ \E k \in 1..MaxTopK :
        inp \in [fn : {"fuse"}, bm25_docs : ResultLists(k), vector_docs : ResultLists(k),
                 bm25_weight : Weights, k : {k}]
    /\ out = NoOut

\* the fusion part of HybridSearch.query on the lists the indexes returned
DoFusion ==
    /\ inp.fn = "fuse"
    /\ out = NoOut
    /\ out' = [fn |-> "fuse",
               score_dict |-> ScoreDict(inp.bm25_docs, inp.vector_docs, inp.bm25_weight),
               result |-> Fusion(inp.bm25_docs, inp.vector_docs, inp.bm25_weight, inp.k)]
    /\ UNCHANGED inp
    /\ UNCHANGED <<routerVars, cacheVars, memVars, llmVars, concVars>>

-----------------------------------------------------------------------------
(* rerank_chunk_level *)

\* product_scores / product_docs after the aggregation loop, in insertion order
RECURSIVE Aggregate(_, _, _)
Aggregate(d, docs, scores) ==
    IF docs = <<>> THEN d
    ELSE LET doc == Head(docs)
             score == Head(scores)
             next ==
                IF ~HasKey(d, Pid(doc))
                THEN Append(d, [pid |-> Pid(doc), score |-> score, doc |-> doc])
                ELSE [i \in 1..Len(d) |->
                        IF d[i].pid = Pid(doc) /\ score > d[i].score
                        THEN [pid |-> d[i].pid, score |-> score, doc |-> doc]
                        ELSE d[i]]
         IN Aggregate(next, Tail(docs), Tail(scores))

\* a rerank that sorts the chunks without aggregating them by product
RerankChunkLevelNoAggregation(docs, scores, topk) ==
    IF docs = <<>> THEN <<>>
    ELSE LET chunks == [i \in 1..Len(docs) |->
                          [pid |-> Pid(docs[i]), score |-> scores[i], doc |-> docs[i]]]
             top == Prefix(SortedDesc(chunks), topk)
         IN [i \in 1..Len(top) |-> top[i].doc]

\* rerank_chunk_level(query, docs, topk), scores being the relevance model's
\* score of each (query, doc) pair
RerankChunkLevel(docs, scores, topk) ==
    IF docs = <<>> THEN <<>>
    ELSE LET top == Prefix(SortedDesc(Aggregate(<<>>, docs, scores)), topk)
         IN [i \in 1..Len(top) |-> top[i].doc]

\* the longest candidate list rerank_chunk_level is given
MaxDocs == 3

InitRerank ==
    /\ \E n \in 0..MaxDocs :
        inp \in [fn : {"rerank"}, docs : { s \in [1..n -> Passages] : IsInjective(s) },
                 scores : [1..n -> 1..MaxScore], topk : 1..MaxTopK]
    /\ out = NoOut

DoRerank ==
    /\ inp.fn = "rerank"
    /\ out = NoOut
    /\ out' = [fn |-> "rerank",
               result |-> RerankChunkLevel(inp.docs, inp.scores, inp.topk)]
    /\ UNCHANGED inp
    /\ UNCHANGED <<routerVars, cacheVars, memVars, llmVars, concVars>>

IdlePure == inp = NoInp /\ out = NoOut

-----------------------------------------------------------------------------
(* The corpus as the ingestion script writes it (data/core.py) and as api.py  *)
(* loads it into Documents                                                    *)

\* the chunks of two products: add_product_to_collection gives the chunk i of
\* a field of product index the id "{index}_{field}_{i}"
IngestedChunks ==
    { [index |-> 0, title |-> "phone 0", field |-> "man_hinh", doc_id |-> "0_man_hinh_0"],
      [index |-> 0, title |-> "phone 0", field |-> "pin_sac", doc_id |-> "0_pin_sac_0"],
      [index |-> 1, title |-> "phone 1", field |-> "man_hinh", doc_id |-> "1_man_hinh_0"] }

\* base_metadata of the product of a chunk
BaseMetadata(chunk) ==
    [title |-> chunk.title, price |-> "gia", url |-> "url", image_url |-> "hinh_anh"]

\* {**base_metadata, "topic": field}
ChunkMetadata(chunk) == BaseMetadata(chunk) @@ [topic |-> chunk.field]

\* a lookup that falls back on the title of the product
MetadataGetOrTitle(metadata, key) ==
    IF key \in DOMAIN metadata THEN metadata[key] ELSE metadata.title

\* metadata.get(key)
MetadataGet(metadata, key) ==
    IF key \in DOMAIN metadata THEN metadata[key] ELSE PyNone

\* the Document of a chunk, by its id and what fusion and reranking read of
\* its metadata
IngestedPassage(chunk) ==
    [id |-> chunk.doc_id, product_id |-> MetadataGet(ChunkMetadata(chunk), "product_id")]

\* the corpus of the ingestion script
IngestedCorpus == { IngestedPassage(chunk) : chunk \in IngestedChunks }

\* that corpus next to passages that do carry a product_id
MixedCorpus == IngestedCorpus \cup { P1a, P2 }

\* the lists of at most n different passages of corpus
ListsOf(corpus, n) ==
    UNION { { l \in [1..m -> corpus] : IsInjective(l) } : m \in 0..n }

\* fusion and rerank_chunk_level on lists of the mixed corpus
InitIngested ==
    /\ \/ \E k \in 1..MaxTopK :
             inp \in [fn : {"fuse"}, bm25_docs : ListsOf(MixedCorpus, k),
                      vector_docs : ListsOf(MixedCorpus, k),
                      bm25_weight : Weights, k : {k}]
       \/ \E n \in 0..MaxDocs :
             inp \in [fn : {"rerank"},
                      docs : { l \in [1..n -> MixedCorpus] : IsInjective(l) },
                      scores : [1..n -> 1..MaxScore], topk : 1..MaxTopK]
    /\ out = NoOut

-----------------------------------------------------------------------------
(* The result cache (diskcache), HybridSearch.query and ReRank.query.  Both   *)
(* are coroutines: the caller's task gives up the event loop where one awaits *)
(* something that is not ready, at asyncio.gather of the two index queries    *)
(* and at asyncio.to_thread of rerank_chunk_level, and other requests run     *)
(* meanwhile.  What runs between two such points runs alone.                  *)

\* expire=86400 of both cache.set calls, in seconds
TTL == 86400

\* how many times the clock advances
MaxTicks == 1

\* how many calls the first requester makes, one after the other
MaxQueries == 2

\* HybridSearch.__init__: bm25_weight, in tenths
DefaultBm25Weight == 5

\* self.k of the HybridSearch instance, self.topk of the ReRank instance
HybridK == MaxTopK
RerankK == MaxTopK - 1

\* the query of the retrieval requests
TheQuery == "q"

\* a product name a comparison asks HybridSearch.query about, next to TheQuery
OtherQuery == "r"

\* hash_query(query, topk) behind the prefix of the stage
CacheKey(stage, query, topk) == <<stage, query, topk>>

HybridKey == CacheKey("hybrid", TheQuery, HybridK)
RerankKey == CacheKey("rerank", TheQuery, RerankK)

CacheKeys == { CacheKey("hybrid", q, HybridK) : q \in {TheQuery, OtherQuery} } \cup { RerankKey }

NoEntry == [t |-> "none"]

\* the index answers a stored list was computed from, when there is none
NoSource == <<>>

\* a cache that never expires its entries
CacheGetIgnoringExpiry(c, key, t) ==
    IF c[key] # NoEntry
    THEN [found |-> TRUE, value |-> c[key].value, source |-> c[key].source,
          raises |-> ~c[key].readable]
    ELSE [found |-> FALSE, value |-> <<>>, source |-> NoSource, raises |-> FALSE]

\* cache.get(key) at time t: an entry is served while its expire time is
\* ahead of the clock, None otherwise; reading the stored bytes of an entry
\* that is damaged raises
CacheGet(c, key, t) ==
    IF c[key] # NoEntry /\ c[key].expire_time > t
    THEN [found |-> TRUE, value |-> c[key].value, source |-> c[key].source,
          raises |-> ~c[key].readable]
    ELSE [found |-> FALSE, value |-> <<>>, source |-> NoSource, raises |-> FALSE]

\* "if cached:" : the truth value of what cache.get returned
Truthy(cached) == cached.found /\ cached.value # <<>>

\* a cache.set that adds the list to the one already stored under the key
CacheSetAppending(c, key, value, t, source) ==
    [c EXCEPT ![key] = [value |-> (IF c[key] = NoEntry THEN <<>> ELSE c[key].value) \o value,
                        expire_time |-> t + TTL, source |-> source,
                        readable |-> TRUE]]

\* cache.set(key, value, expire=86400) at time t; source is the history
\* variable holding the two index answers the value was computed from
CacheSet(c, key, value, t, source) ==
    [c EXCEPT ![key] = [value |-> value, expire_time |-> t + TTL, source |-> source,
                        readable |-> TRUE]]

\* the score the relevance model gives a passage for the query
RelevanceScore(doc) ==
    CASE doc.id = "d1" -> 1
      [] doc.id = "d2" -> 3
      [] doc.id = "d3" -> 2
      [] OTHER -> 2

\* the snapshots of the corpus an ingestion can leave, by what the lexical and
\* the vector index answer TheQuery with
SnapshotNames == {"s0", "s1", "s3"}

LexAt(snap) ==
    CASE snap = "s0" -> <<P1a, P2>>
      [] snap = "s1" -> <<>>
      [] OTHER -> <<P2, P1b>>

VecAt(snap) ==
    CASE snap = "s0" -> <<P2, P1b>>
      [] snap = "s1" -> <<>>
      [] OTHER -> <<PNone>>

Snapshot(name) == [name |-> name, lex |-> LexAt(name), vec |-> VecAt(name)]

Snapshots == { Snapshot(name) : name \in SnapshotNames }

\* a corpus whose indexes answer TheQuery with any two lists
AnyIndexes == [name : {"any"}, lex : ResultLists(HybridK), vec : ResultLists(HybridK)]

\* self.bm25.ainvoke(query) and self.vector_retriever.ainvoke(query) on the
\* corpus idx; the indexes know one passage of the other product
BM25Invoke(idx, query) == IF query = TheQuery THEN idx.lex ELSE <<P2>>
VectorInvoke(idx, query) == IF query = TheQuery THEN idx.vec ELSE <<P2>>

\* the requesters; each has at most one call in flight
Requests == {"A", "B"}

\* the tasks asyncio.gather makes of the product queries of requester r's
\* comparison (comparison_tool.py:54)
ProductTasks(r) == IF r = "A" THEN {"A1", "A2"} ELSE {"B1", "B2"}

Tasks == Requests \cup UNION { ProductTasks(r) : r \in Requests }

\* the local variables of a call of ReRank.query (op "rerank") or of
\* HybridSearch.query (op "hybrid") that has not started, and the history
\* variables that say what the call found and did
NewCall(op, query) ==
    [op |-> op, query |-> query, pc |-> "idle", t |-> 0,
     pre |-> NoEntry, pre_hybrid |-> NoEntry,
     lex_done |-> FALSE, bm25_docs |-> <<>>,
     vec_done |-> FALSE, vector_docs |-> <<>>,
     docs |-> <<>>, source |-> NoSource, result |-> <<>>,
     fused |-> FALSE, reranked |-> FALSE,
     wrote_hybrid |-> NoEntry, wrote_rerank |-> NoEntry,
     lex_queries |-> 0, vec_queries |-> 0, fusion_calls |-> 0, model_calls |-> 0,
     down |-> "none"]

NoTask == NewCall("none", TheQuery)

HybridKeyOf(me) == CacheKey("hybrid", me.query, HybridK)
RerankKeyOf(me) == CacheKey("rerank", me.query, RerankK)

\* the key of the call
KeyOf(me) == IF me.op = "rerank" THEN RerankKeyOf(me) ELSE HybridKeyOf(me)

\* the call returns result to its caller
Returned(me, docs) == [me EXCEPT !.pc = "done", !.result = docs]

\* the call raises to its caller
Raised(me, down) == [me EXCEPT !.pc = "raised", !.result = <<>>, !.down = down]

\* HybridSearch.query returns me.docs: to the caller, or to ReRank.query, which
\* goes on to await asyncio.to_thread(rerank_chunk_level, ...)
HybridReturns(me) ==
    IF me.op = "hybrid" THEN Returned(me, me.docs) ELSE [me EXCEPT !.pc = "rerank_wait"]

\* HybridSearch.query up to its await (re_rank.py:51-56): a damaged entry
\* raises, a stored list that is not empty is returned, anything else has the
\* two index queries gathered
EnterHybridQuery(c, t, me) ==
    LET cached == CacheGet(c, HybridKeyOf(me), t)
        me1 == [me EXCEPT !.pre_hybrid = c[HybridKeyOf(me)]]
    IN IF cached.raises THEN Raised(me1, "cache")
       ELSE IF Truthy(cached)
       THEN HybridReturns([me1 EXCEPT !.docs = cached.value, !.source = cached.source])
       ELSE [me1 EXCEPT !.pc = "index_wait", !.lex_queries = 1, !.vec_queries = 1]

\* ReRank.query up to its first await that suspends (re_rank.py:117-122)
EnterReRankQuery(c, t, me) ==
    LET cached == CacheGet(c, RerankKeyOf(me), t)
    IN IF cached.raises THEN Raised(me, "cache")
       ELSE IF Truthy(cached)
       THEN Returned([me EXCEPT !.source = cached.source], cached.value)
       ELSE EnterHybridQuery(c, t, [me EXCEPT !.fusion_calls = 1])

\* the call starts at time t on cache c
EnterQuery(c, t, op, query) ==
    LET me == [NewCall(op, query) EXCEPT !.t = t, !.pre = c[KeyOf(NewCall(op, query))]]
    IN IF op = "rerank" THEN EnterReRankQuery(c, t, me) ELSE EnterHybridQuery(c, t, me)

\* HybridSearch.query after the gather (re_rank.py:61-81): the fusion,
\* cache.set, return
ResumeHybridQuery(c, t, me) ==
    LET result_list == Fusion(me.bm25_docs, me.vector_docs, DefaultBm25Weight, HybridK)
        source == <<me.bm25_docs, me.vector_docs>>
        stored == CacheSet(c, HybridKeyOf(me), result_list, t, source)
    IN [cache |-> stored,
        me |-> HybridReturns([me EXCEPT !.docs = result_list, !.source = source, !.fused = TRUE,
                                        !.wrote_hybrid = stored[HybridKeyOf(me)]])]

\* a gather that fuses and stores the answer it did get when a query raises
GatherRaisesStoringPartial(c, t, me, down) ==
    LET result_list == Fusion(me.bm25_docs, me.vector_docs, DefaultBm25Weight, HybridK)
        source == <<me.bm25_docs, me.vector_docs>>
        stored == CacheSet(c, HybridKeyOf(me), result_list, t, source)
    IN [cache |-> stored,
        me |-> Raised([me EXCEPT !.wrote_hybrid = stored[HybridKeyOf(me)]], down)]

\* asyncio.gather when the query of the index named by down raises: gather
\* raises what the query raised, nothing behind the await runs, and
\* ReRank.query raises what HybridSearch.query raised
GatherRaises(c, t, me, down) == [cache |-> c, me |-> Raised(me, down)]

\* ReRank.query after to_thread (re_rank.py:123-127): rerank_chunk_level has
\* scored the passages (it returns [] without the model when there are none),
\* cache.set, return
ResumeReRankQuery(c, t, me) ==
    LET scores == [i \in 1..Len(me.docs) |-> RelevanceScore(me.docs[i])]
        reranked_docs == RerankChunkLevel(me.docs, scores, RerankK)
        stored == CacheSet(c, RerankKeyOf(me), reranked_docs, t, me.source)
    IN [cache |-> stored,
        me |-> Returned([me EXCEPT !.reranked = TRUE,
                                   !.model_calls = IF me.docs = <<>> THEN 0 ELSE 1,
                                   !.wrote_rerank = stored[RerankKeyOf(me)]],
                        reranked_docs)]

\* the relevance model raises inside rerank_chunk_level: to_thread raises it
\* in ReRank.query, before its cache.set
ToThreadRaises(c, t, me) ==
    [cache |-> c, me |-> Raised([me EXCEPT !.model_calls = 1], "model")]

\* the last cache.set of each key: who made it and what it stored
NoWrite == [by |-> "none", value |-> <<>>]

Written(w, key, r, value) == [w EXCEPT ![key] = [by |-> r, value |-> value]]

InitCache ==
    /\ cache = [key \in CacheKeys |-> NoEntry]
    /\ now = 0
    /\ nticks = 0
    /\ index = Snapshot("s0")

IdleCache == InitCache

\* no call is in flight and none will be made
IdleConc ==
    /\ inflight = [r \in Tasks |-> NoTask]
    /\ writes = [key \in CacheKeys |-> NoWrite]
    /\ calls_left = [r \in Requests |-> 0]

\* requester A has MaxQueries calls to make, and B one that can come in at any
\* moment
InitCalls ==
    /\ inflight = [r \in Tasks |-> NoTask]
    /\ writes = [key \in CacheKeys |-> NoWrite]
    /\ calls_left = [r \in Requests |-> IF r = "A" THEN MaxQueries ELSE 1]

\* two requests, at the same time
InitConc ==
    /\ inflight = [r \in Tasks |-> NoTask]
    /\ writes = [key \in CacheKeys |-> NoWrite]
    /\ calls_left = [r \in Requests |-> 1]

\* requester r has no call in flight
Free(r) == inflight[r].pc \in {"idle", "done", "raised"}

\* the thread ids in use; the ids the endpoint generates are taken in order
ThreadIds == <<"T1", "T2">>

\* a request without thread_id
NoThread == "<None>"

\* a request to the chat endpoint, or a run of the workflow, that has not come
\* in: the request (its number, the thread_id it gave, the thread it runs on,
\* its route), how far the handler and the generator of its reply have come,
\* and the run of the workflow on its thread (the messages it loaded, its
\* state, the messages it stored)
NoTurn ==
    [n |-> 0, given |-> NoThread, thread |-> NoThread, route |-> "none",
     reply |-> "none", phase |-> "none", info |-> FALSE,
     inputs |-> <<>>, run |-> "none", before |-> <<>>, state |-> <<>>, after |-> <<>>,
     compacted |-> FALSE, summarize_calls |-> 0, summarized |-> <<>>, prompt |-> <<>>,
     overlapped |-> FALSE]

\* chat behind the await of its stage (api.py:133-179): when the stage raised,
\* the handler logs and raises again; when it returned, the handler returns
\* the StreamingResponse, whose generator has not run yet
ChatGoesOn(req, me) ==
    IF me.pc = "raised"
    THEN [req EXCEPT !.reply = "error"]
    ELSE [req EXCEPT !.reply = "stream", !.phase = "created"]

\* the requests once the call me of task r has returned or raised: the handler
\* that awaits it goes on in the same step of the event loop
AfterStage(r, me) ==
    IF r \in Requests /\ turn[r].reply = "pending" /\ me.pc \in {"done", "raised"}
    THEN [turn EXCEPT ![r] = ChatGoesOn(turn[r], me)]
    ELSE turn

\* requester r calls HybridSearch.query(TheQuery), which runs up to its await
BeginHybridQuery(r) ==
    /\ Free(r)
    /\ calls_left[r] > 0
    /\ calls_left' = [calls_left EXCEPT ![r] = @ - 1]
    /\ inflight' = [inflight EXCEPT ![r] = EnterQuery(cache, now, "hybrid", TheQuery)]
    /\ UNCHANGED writes
    /\ UNCHANGED <<routerVars, cacheVars, pureVars, memVars, llmVars>>

\* requester r calls ReRank.query(TheQuery), which runs up to its first await
\* that suspends
BeginReRankQuery(r) ==
    /\ Free(r)
    /\ calls_left[r] > 0
    /\ calls_left' = [calls_left EXCEPT ![r] = @ - 1]
    /\ inflight' = [inflight EXCEPT ![r] = EnterQuery(cache, now, "rerank", TheQuery)]
    /\ UNCHANGED writes
    /\ UNCHANGED <<routerVars, cacheVars, pureVars, memVars, llmVars>>

\* self.bm25.ainvoke(query) answers from the corpus as it is now
LexicalAnswers(r) ==
    /\ inflight[r].pc = "index_wait"
    /\ ~inflight[r].lex_done
    /\ inflight' = [inflight EXCEPT ![r].lex_done = TRUE,
                                    ![r].bm25_docs = BM25Invoke(index, inflight[r].query)]
    /\ UNCHANGED <<writes, calls_left>>
    /\ UNCHANGED <<routerVars, cacheVars, pureVars, memVars, llmVars>>

\* self.vector_retriever.ainvoke(query) answers from the corpus as it is now
VectorAnswers(r) ==
    /\ inflight[r].pc = "index_wait"
    /\ ~inflight[r].vec_done
    /\ inflight' = [inflight EXCEPT ![r].vec_done = TRUE,
                                    ![r].vector_docs = VectorInvoke(index, inflight[r].query)]
    /\ UNCHANGED <<writes, calls_left>>
    /\ UNCHANGED <<routerVars, cacheVars, pureVars, memVars, llmVars>>

\* both index queries have answered and the call resumes after the gather
HybridResumes(r) ==
    /\ inflight[r].pc = "index_wait"
    /\ inflight[r].lex_done
    /\ inflight[r].vec_done
    /\ LET s == ResumeHybridQuery(cache, now, inflight[r])
       IN /\ cache' = s.cache
          /\ writes' = Written(writes, HybridKeyOf(s.me), r, s.me.docs)
          /\ inflight' = [inflight EXCEPT ![r] = s.me]
    /\ UNCHANGED <<now, nticks, index, calls_left>>
    /\ UNCHANGED <<routerVars, pureVars, memVars, llmVars>>

\* rerank_chunk_level has returned in its thread and the call resumes
RerankResumes(r) ==
    /\ inflight[r].pc = "rerank_wait"
    /\ LET s == ResumeReRankQuery(cache, now, inflight[r])
       IN /\ cache' = s.cache
          /\ writes' = Written(writes, RerankKeyOf(s.me), r, s.me.result)
          /\ inflight' = [inflight EXCEPT ![r] = s.me]
    /\ UNCHANGED <<now, nticks, index, calls_left>>
    /\ turn' = AfterStage(r, inflight'[r])
    /\ UNCHANGED <<memory, next_id, nreqs, threads>>
    /\ UNCHANGED <<routerVars, pureVars, llmVars>>

\* an index query that has not answered raises (the index is down)
IndexQueryRaises(r) ==
    /\ inflight[r].pc = "index_wait"
    /\ \E down \in {"lexical", "vector"} :
          /\ down = "lexical" => ~inflight[r].lex_done
          /\ down = "vector" => ~inflight[r].vec_done
          /\ LET s == GatherRaises(cache, now, inflight[r], down)
             IN /\ cache' = s.cache
                /\ inflight' = [inflight EXCEPT ![r] = s.me]
    /\ UNCHANGED <<now, nticks, index, writes, calls_left>>
    /\ turn' = AfterStage(r, inflight'[r])
    /\ UNCHANGED <<memory, next_id, nreqs, threads>>
    /\ UNCHANGED <<routerVars, pureVars, llmVars>>

\* the relevance model raises while it scores the passages
RelevanceModelRaises(r) ==
    /\ inflight[r].pc = "rerank_wait"
    /\ inflight[r].docs # <<>>
    /\ LET s == ToThreadRaises(cache, now, inflight[r])
       IN /\ cache' = s.cache
          /\ inflight' = [inflight EXCEPT ![r] = s.me]
    /\ UNCHANGED <<now, nticks, index, writes, calls_left>>
    /\ turn' = AfterStage(r, inflight'[r])
    /\ UNCHANGED <<memory, next_id, nreqs, threads>>
    /\ UNCHANGED <<routerVars, pureVars, llmVars>>

\* the corpus is ingested again and the indexes answer from another snapshot
UpstreamChange ==
    /\ \E snap \in Snapshots \ {index} : index' = snap
    /\ UNCHANGED <<cache, now, nticks>>
    /\ UNCHANGED <<routerVars, pureVars, memVars, llmVars, concVars>>

\* time passes: half a TTL, or a whole one
Tick ==
    /\ nticks < MaxTicks
    /\ \E d \in {TTL \div 2, TTL} : now' = now + d
    /\ nticks' = nticks + 1
    /\ UNCHANGED <<cache, index>>
    /\ UNCHANGED <<routerVars, pureVars, memVars, llmVars, concVars>>

\* the stored bytes of an entry are damaged (a torn write, a disk fault, a
\* class that no longer unpickles)
CorruptEntry ==
    /\ \E key \in CacheKeys :
          /\ cache[key] # NoEntry
          /\ cache[key].readable
          /\ cache' = [cache EXCEPT ![key].readable = FALSE]
    /\ UNCHANGED <<now, nticks, index>>
    /\ UNCHANGED <<routerVars, pureVars, memVars, llmVars, concVars>>

\* how many times the clock advances while only HybridSearch.query is called
HybridTicks == MaxTicks

\* a whole TTL passes
TickTTL ==
    /\ nticks < HybridTicks
    /\ now' = now + TTL
    /\ nticks' = nticks + 1
    /\ UNCHANGED <<cache, index>>
    /\ UNCHANGED <<routerVars, pureVars, memVars, llmVars, concVars>>

-----------------------------------------------------------------------------
(* The chat endpoint (api.py) and ChatWithMemory (generation/llm_stm.py) *)

\* ChatWithMemory.__init__: summary_threshold
summary_threshold == 10

\* how many requests the chat endpoint takes
MaxRequests == 3

\* the id of a message that has none yet (None)
NoId == 0

Msg(id, type, content) == [id |-> id, type |-> type, content |-> content]

\* RemoveMessage(id=id)
RemoveMessage(id) == Msg(id, "remove", <<"remove", 0>>)

\* add_messages gives every message without an id a fresh one (a uuid):
\* first, first + 1, ... in the order of the list
AssignIds(msgs, first) ==
    [i \in 1..Len(msgs) |->
        IF msgs[i].id = NoId
        THEN [msgs[i] EXCEPT
                 !.id = first + Cardinality({ j \in 1..(i - 1) : msgs[j].id = NoId })]
        ELSE msgs[i]]

\* the index in left of the message with this id, 0 if there is none
IndexOfId(left, id) ==
    IF \E i \in 1..Len(left) : left[i].id = id
    THEN CHOOSE i \in 1..Len(left) : left[i].id = id
    ELSE 0

\* add_messages raising: a RemoveMessage names an id that is not stored
ReducerRaises == <<Msg(NoId, "ValueError", <<"error", 0>>)>>

\* the merge loop of add_messages: a message with a stored id replaces the
\* stored one or, a RemoveMessage, marks it for removal; another one is appended
RECURSIVE Merge(_, _, _, _)
Merge(left, merged, ids_to_remove, right) ==
    IF right = <<>>
    THEN SelectSeq(merged, LAMBDA m : m.id \notin ids_to_remove)
    ELSE LET m == Head(right)
             existing_idx == IndexOfId(left, m.id)
         IN IF existing_idx # 0
            THEN IF m.type = "remove"
                 THEN Merge(left, merged, ids_to_remove \cup {m.id}, Tail(right))
                 ELSE Merge(left, [merged EXCEPT ![existing_idx] = m],
                            ids_to_remove \ {m.id}, Tail(right))
            ELSE IF m.type = "remove"
                 THEN ReducerRaises
                 ELSE Merge(left, Append(merged, m), ids_to_remove, Tail(right))

\* a reducer that overwrites the stored messages with the new ones
AddMessagesOverwriting(left, right, first) == AssignIds(right, first)

\* add_messages(left, right), the reducer of MessagesState; first is the first
\* of the fresh ids
AddMessages(left, right, first) == Merge(left, left, {}, AssignIds(right, first))

\* ChatWithMemory._build_system_message
BuildSystemMessage == Msg(NoId, "system", <<"Lisa", 0>>)

\* a compaction test that counts the in-flight message as history
CallModelCountingNewest(msgs, first, n) ==
    LET system_message == BuildSystemMessage
        message_history == SubSeq(msgs, 1, Len(msgs) - 1)
    IN IF Len(msgs) >= summary_threshold
       THEN LET last_user_message == msgs[Len(msgs)]
                summary_message == Msg(first, "ai", <<"summary", n>>)
                delete_ops == [i \in 1..Len(msgs) |-> RemoveMessage(msgs[i].id)]
                human_message == Msg(NoId, "human", last_user_message.content)
                response == Msg(first + 1, "ai", <<"response", n>>)
            IN [updates |-> <<summary_message, human_message, response>> \o delete_ops,
                compacted |-> TRUE,
                summarize_calls |-> 1,
                summarized |-> message_history,
                prompt |-> <<system_message, summary_message, human_message>>]
       ELSE [updates |-> <<Msg(first, "ai", <<"response", n>>)>>,
             compacted |-> FALSE,
             summarize_calls |-> 0,
             summarized |-> <<>>,
             prompt |-> <<system_message>> \o msgs]

\* a compaction that forgets the delete operations
CallModelKeepingHistory(msgs, first, n) ==
    LET system_message == BuildSystemMessage
        message_history == SubSeq(msgs, 1, Len(msgs) - 1)
    IN IF Len(message_history) >= summary_threshold
       THEN LET last_user_message == msgs[Len(msgs)]
                summary_message == Msg(first, "ai", <<"summary", n>>)
                human_message == Msg(NoId, "human", last_user_message.content)
                response == Msg(first + 1, "ai", <<"response", n>>)
            IN [updates |-> <<summary_message, human_message, response>>,
                compacted |-> TRUE,
                summarize_calls |-> 1,
                summarized |-> message_history,
                prompt |-> <<system_message, summary_message, human_message>>]
       ELSE [updates |-> <<Msg(first, "ai", <<"response", n>>)>>,
             compacted |-> FALSE,
             summarize_calls |-> 0,
             summarized |-> <<>>,
             prompt |-> <<system_message>> \o msgs]

\* ChatWithMemory.call_model(state), state["messages"] being msgs: the
\* updates it returns, whether it took the compaction branch, the history it
\* had summarized and the messages of the invoke that produced the response.
\* The messages the model returns (the summary and the response of request n)
\* carry the ids first and first + 1.
CallModel(msgs, first, n) ==
    LET system_message == BuildSystemMessage
        message_history == SubSeq(msgs, 1, Len(msgs) - 1)
    IN IF Len(message_history) >= summary_threshold
       THEN LET last_user_message == msgs[Len(msgs)]
                summary_message == Msg(first, "ai", <<"summary", n>>)
                delete_ops == [i \in 1..Len(msgs) |-> RemoveMessage(msgs[i].id)]
                human_message == Msg(NoId, "human", last_user_message.content)
                response == Msg(first + 1, "ai", <<"response", n>>)
            IN [updates |-> <<summary_message, human_message, response>> \o delete_ops,
                compacted |-> TRUE,
                summarize_calls |-> 1,
                summarized |-> message_history,
                prompt |-> <<system_message, summary_message, human_message>>]
       ELSE [updates |-> <<Msg(first, "ai", <<"response", n>>)>>,
             compacted |-> FALSE,
             summarize_calls |-> 0,
             summarized |-> <<>>,
             prompt |-> <<system_message>> \o msgs]

\* the thread ids a client has been sent in a control line
KnownThreads == { t \in DOMAIN threads : threads[t] = "known" }

\* a generator of thread ids that hands out the same id again
FreshThreadRepeated == ThreadIds[1]

\* str(uuid.uuid4()): a thread id that has not been handed out
FreshThread ==
    ThreadIds[CHOOSE i \in 1..Len(ThreadIds) :
                 /\ threads[ThreadIds[i]] = "unused"
                 /\ \A j \in 1..(i - 1) : threads[ThreadIds[j]] # "unused"]

\* router_result.get("router"): the tag classify returned, or none
Routes == {"chat", PyNone, "retrieval", "comparison"}

\* LLL_ROUTER.classify(req.message) raises: its model call is not guarded
\* (llm_router.py:219), and chat logs and raises again
ClassifyRaises == "<raises>"

\* comparison_tool.run.ainvoke({"product_names": ...}): run is a tool made of
\* a method that is not bound to the instance, and the call either fails for
\* its missing self or reaches the body of run, by the version of the library
ToolOutcomes == {"runs", "raises"}

\* the messages chat hands to stream_generator for request n: the rendered
\* prompt of the route as a system message, and the message of the request
RequestMessages(route, n) ==
    IF route \in {"comparison", "retrieval"}
    THEN << Msg(NoId, "system", <<"prompt", 0>>), Msg(NoId, "human", <<"user", n>>) >>
    ELSE << Msg(NoId, "human", <<"user", n>>) >>

\* the product name task c of a comparison asks HybridSearch.query about
ProductName(c) == IF c \in {"A1", "B1"} THEN TheQuery ELSE OtherQuery

\* a task asyncio.gather has made of _get_info_for_product(name) and that has
\* not run yet
Scheduled(name) == [NewCall("hybrid", name) EXCEPT !.pc = "scheduled"]

InitMemory ==
    /\ memory = [t \in { ThreadIds[i] : i \in 1..Len(ThreadIds) } |-> <<>>]
    /\ next_id = 1
    /\ nreqs = 0
    /\ turn = [r \in Requests |-> NoTurn]
    /\ threads = [t \in { ThreadIds[i] : i \in 1..Len(ThreadIds) } |-> "unused"]

IdleMemory == InitMemory

\* the runs of the workflow in progress on the thread, other than r's
RunningOn(thread, r) ==
    { q \in Requests \ {r} : turn[q].run = "running" /\ turn[q].thread = thread }

\* the compiled workflow starts a run for req: it loads the messages stored
\* for the thread and the input messages go through the reducer into the state
StartRun(req, stored, first, overlapped) ==
    [req EXCEPT !.run = "running", !.before = stored,
                !.state = AddMessages(stored, req.inputs, first),
                !.overlapped = @ \/ overlapped]

\* call_model has returned: its updates go through the reducer into the state
\* of the run
EndRun(req, first) ==
    LET r == CallModel(req.state, first, req.n)
    IN [req EXCEPT !.run = "completed",
                   !.phase = IF @ \in {"running", "chunk"} THEN "ended" ELSE @,
                   !.after = AddMessages(req.state, r.updates, first + 2),
                   !.compacted = r.compacted,
                   !.summarize_calls = r.summarize_calls,
                   !.summarized = r.summarized,
                   !.prompt = r.prompt]

\* the requests, those of others marked as overlapped by another request of
\* their thread
Overlapped(others) ==
    [q \in Requests |->
        IF q \in others THEN [turn[q] EXCEPT !.overlapped = TRUE] ELSE turn[q]]

\* the run of requester r's request req starts, and the checkpointer stores its
\* state before the node runs; the runs it finds in progress on the thread
\* overlap with it
RunStarts(r, req) ==
    LET others == RunningOn(req.thread, r)
        started == StartRun(req, memory[req.thread], next_id, others # {})
    IN /\ turn' = [Overlapped(others) EXCEPT ![r] = started]
       /\ memory' = [memory EXCEPT ![req.thread] = started.state]
       /\ next_id' = next_id + Len(req.inputs)

\* how many of the requests reach the body of the comparison tool
MaxComparisons == 1

\* the first client has all requests but one to send, one after the other, and
\* the second client one that can come in at any moment
InitClients ==
    /\ inflight = [r \in Tasks |-> NoTask]
    /\ writes = [key \in CacheKeys |-> NoWrite]
    /\ calls_left = [r \in Requests \cup {"comparison"} |->
                         CASE r = "A" -> MaxRequests - 1
                           [] r = "B" -> 1
                           [] OTHER -> MaxComparisons]

\* requester r has no request in the handler, no reply being generated and no
\* run of the workflow going on behind a closed reply
ChatFree(r) ==
    \/ turn[r].reply \in {"none", "error"}
    \/ turn[r].phase \in {"ended", "closed"} /\ turn[r].run # "running"

\* the requests in progress on the thread, other than r's
RequestsOn(thread, r) ==
    { q \in Requests \ {r} : ~ChatFree(q) /\ turn[q].thread = thread }

\* POST /chat/ (api.py:117-179) up to the await of its stage: the thread id,
\* classify, which returns a route or raises, and the stage of the route up to
\* where it suspends.  The routes without a stage, and a retrieval served from
\* the cache, return the StreamingResponse at once; when classify raises, the
\* handler raises with the thread id made and no route
ChatBegins(r) ==
    /\ calls_left[r] > 0
    /\ ChatFree(r)
    /\ \E classified \in Routes \cup {ClassifyRaises},
          given \in KnownThreads \cup {NoThread}, tool \in ToolOutcomes :
          /\ given = NoThread => \E t \in DOMAIN threads : threads[t] = "unused"
          /\ classified # "comparison" => tool = "raises"
          /\ tool = "runs" => calls_left["comparison"] > 0
          /\ LET route == IF classified = ClassifyRaises THEN NoTurn.route ELSE classified
                 thread_id == IF given = NoThread THEN FreshThread ELSE given
                 others == RequestsOn(thread_id, r)
                 req == [NoTurn EXCEPT !.n = nreqs + 1, !.given = given,
                                       !.thread = thread_id, !.route = route,
                                       !.reply = "pending",
                                       !.overlapped = others # {},
                                       !.info = route \in {"comparison", "retrieval"},
                                       !.inputs = RequestMessages(route, nreqs + 1)]
                 me == EnterQuery(cache, now, "rerank", TheQuery)
             IN /\ calls_left' = [calls_left EXCEPT
                                    ![r] = @ - 1,
                                    !["comparison"] = IF tool = "runs" THEN @ - 1 ELSE @]
                /\ threads' = IF given = NoThread
                              THEN [threads EXCEPT ![thread_id] = "issued"]
                              ELSE threads
                /\ CASE classified = ClassifyRaises ->
                           /\ inflight' = [inflight EXCEPT ![r] = NoTask]
                           /\ turn' = [Overlapped(others) EXCEPT ![r] = [req EXCEPT !.reply = "error"]]
                     [] route = "retrieval" ->
                           /\ inflight' = [inflight EXCEPT ![r] = me]
                           /\ turn' = [Overlapped(others) EXCEPT ![r] =
                                          IF me.pc \in {"done", "raised"}
                                          THEN ChatGoesOn(req, me) ELSE req]
                     [] route = "comparison" /\ tool = "runs" ->
                           /\ inflight' = [t \in Tasks |->
                                              IF t \in ProductTasks(r)
                                              THEN Scheduled(ProductName(t))
                                              ELSE IF t = r THEN NoTask ELSE inflight[t]]
                           /\ turn' = [Overlapped(others) EXCEPT ![r] = req]
                     [] route = "comparison" /\ tool = "raises" ->
                           /\ inflight' = [inflight EXCEPT ![r] = NoTask]
                           /\ turn' = [Overlapped(others) EXCEPT ![r] = [req EXCEPT !.reply = "error"]]
                     [] OTHER ->
                           /\ inflight' = [inflight EXCEPT ![r] = NoTask]
                           /\ turn' = [Overlapped(others) EXCEPT ![r] = ChatGoesOn(req, NoTask)]
    /\ nreqs' = nreqs + 1
    /\ UNCHANGED <<memory, next_id, writes>>
    /\ UNCHANGED <<routerVars, cacheVars, pureVars, llmVars>>

\* the task of one product of a comparison runs: _get_info_for_product calls
\* self.retriever.query(product_name), which runs up to its await
ProductQueryStarts(c) ==
    /\ inflight[c].pc = "scheduled"
    /\ inflight' = [inflight EXCEPT ![c] = EnterQuery(cache, now, "hybrid", inflight[c].query)]
    /\ UNCHANGED <<writes, calls_left>>
    /\ UNCHANGED <<routerVars, cacheVars, pureVars, memVars, llmVars>>

\* every product task of r's comparison has returned (_get_info_for_product
\* catches what its query raises), run builds the table, and chat returns the
\* StreamingResponse
ComparisonResumes(r) ==
    /\ turn[r].reply = "pending"
    /\ turn[r].route = "comparison"
    /\ \A c \in ProductTasks(r) : inflight[c].pc \in {"done", "raised"}
    /\ turn' = [turn EXCEPT ![r] = ChatGoesOn(turn[r], NoTask)]
    /\ inflight' = [t \in Tasks |-> IF t \in ProductTasks(r) THEN NoTask ELSE inflight[t]]
    /\ UNCHANGED <<memory, next_id, nreqs, threads, writes, calls_left>>
    /\ UNCHANGED <<routerVars, cacheVars, pureVars, llmVars>>

\* the server asks the generator for its first item: the control line with the
\* thread id (api.py:92)
StreamStarts(r) ==
    /\ turn[r].reply = "stream"
    /\ turn[r].phase = "created"
    /\ turn' = [turn EXCEPT ![r].phase = "control"]
    /\ threads' = [threads EXCEPT ![turn[r].thread] = "known"]
    /\ UNCHANGED <<memory, next_id, nreqs>>
    /\ UNCHANGED <<routerVars, cacheVars, pureVars, llmVars, concVars>>

\* the info line of the retrieval and the comparison route (api.py:93-94)
InfoLine(r) ==
    /\ turn[r].phase = "control"
    /\ turn[r].info
    /\ turn' = [turn EXCEPT ![r].phase = "info"]
    /\ UNCHANGED <<memory, next_id, nreqs, threads>>
    /\ UNCHANGED <<routerVars, cacheVars, pureVars, llmVars, concVars>>

\* the generator has yielded its lines and is asked for the next item
LinesYielded(req) == req.phase = (IF req.info THEN "info" ELSE "control")

\* the generator enters llm.astream_events (api.py:99): the run of the workflow
\* on the thread of the request starts
WorkflowStarts(r) ==
    /\ LinesYielded(turn[r])
    /\ RunStarts(r, [turn[r] EXCEPT !.phase = "running"])
    /\ UNCHANGED <<nreqs, threads>>
    /\ UNCHANGED <<routerVars, cacheVars, pureVars, llmVars, concVars>>

\* a chunk of the model's answer is yielded to the client and the generator
\* stays suspended there (api.py:109)
ChunkStreamed(r) ==
    /\ turn[r].phase = "running"
    /\ turn' = [turn EXCEPT ![r].phase = "chunk"]
    /\ UNCHANGED <<memory, next_id, nreqs, threads>>
    /\ UNCHANGED <<routerVars, cacheVars, pureVars, llmVars, concVars>>

\* call_model returns, the checkpointer stores the state of the run as the
\* messages of the thread, and the generator of a reply ends
WorkflowEnds(r) ==
    /\ turn[r].run = "running"
    /\ LET ended == EndRun(turn[r], next_id)
       IN /\ turn' = [turn EXCEPT ![r] = ended]
          /\ memory' = [memory EXCEPT ![ended.thread] = ended.after]
    /\ next_id' = next_id + 3
    /\ UNCHANGED <<nreqs, threads>>
    /\ UNCHANGED <<routerVars, cacheVars, pureVars, llmVars, concVars>>

\* the model raises inside call_model: the node returns no update, the stored
\* messages stay what the start of the run stored, and stream_generator logs
\* the exception and ends the reply (api.py:110-111).  Behind a closed reply
\* nothing catches it: that run ends as WorkflowCancelled says
WorkflowRaises(r) ==
    /\ turn[r].run = "running"
    /\ turn[r].phase # "closed"
    /\ turn' = [turn EXCEPT ![r].run = "raised",
                            ![r].phase = IF @ \in {"running", "chunk"} THEN "ended" ELSE @]
    /\ UNCHANGED <<memory, next_id, nreqs, threads>>
    /\ UNCHANGED <<routerVars, cacheVars, pureVars, llmVars, concVars>>

\* the client goes away and the server closes or cancels the generator where
\* it is suspended: at one of its lines, and the workflow is never entered, or
\* inside the loop over llm.astream_events (api.py:99-109), and the generator
\* ends (GeneratorExit and CancelledError pass the except of line 110) with the
\* run of the workflow entered and not ended
StreamClosed(r) ==
    /\ turn[r].phase \in {"control", "info", "running", "chunk"}
    /\ turn' = [turn EXCEPT ![r].phase = "closed"]
    /\ UNCHANGED <<memory, next_id, nreqs, threads>>
    /\ UNCHANGED <<routerVars, cacheVars, pureVars, llmVars, concVars>>

\* the run behind a closed reply is cancelled with its stream of events, or
\* raises with nobody to catch it: the node returns no update and the stored
\* messages stay what the start of the run stored.  (A run that is not
\* cancelled can go on to its end in the background: WorkflowEnds.)
WorkflowCancelled(r) ==
    /\ turn[r].phase = "closed"
    /\ turn[r].run = "running"
    /\ turn' = [turn EXCEPT ![r].run = "cancelled"]
    /\ UNCHANGED <<memory, next_id, nreqs, threads>>
    /\ UNCHANGED <<routerVars, cacheVars, pureVars, llmVars, concVars>>

\* how many runs of the workflow are started
MaxTurns == 4

\* the longest list of input messages a turn is given
MaxInputs == 12

\* how many input messages a turn is given
InputCounts == {1, 2, 5, MaxInputs}

\* n input messages of turn t, the last one the user message
TurnInputs(k, t) ==
    [i \in 1..k |->
        IF i = k THEN Msg(NoId, "human", <<"user", t>>)
        ELSE Msg(NoId, "system", <<"prompt", 0>>)]

\* the first caller has all runs but one to start, one after the other, and the
\* second caller one that can come in at any moment
InitCallers ==
    /\ inflight = [r \in Tasks |-> NoTask]
    /\ writes = [key \in CacheKeys |-> NoWrite]
    /\ calls_left = [r \in Requests |-> IF r = "A" THEN MaxTurns - 1 ELSE 1]

\* caller r runs the compiled workflow on thread T1 with k input messages:
\* llm.invoke({"messages": inputs}, config)
TurnBegins(r) ==
    /\ turn[r].run # "running"
    /\ calls_left[r] > 0
    /\ \E k \in InputCounts :
          RunStarts(r, [NoTurn EXCEPT !.n = nreqs + 1, !.given = ThreadIds[1],
                                      !.thread = ThreadIds[1],
                                      !.inputs = TurnInputs(k, nreqs + 1)])
    /\ nreqs' = nreqs + 1
    /\ calls_left' = [calls_left EXCEPT ![r] = @ - 1]
    /\ UNCHANGED <<threads, inflight, writes>>
    /\ UNCHANGED <<routerVars, cacheVars, pureVars, llmVars>>

-----------------------------------------------------------------------------
(* The generation model: LLM._response, ChatLLM._generate, ChatLLM._stream *)

\* LLM._response: max_retries, the number of attempts
response_max_retries == 3

\* LLM._response: base_delay, in seconds
base_delay == 2

\* how many calls of _generate and _stream the shared instance gets
MaxCalls == 2

\* the exceptions the provider's client raises, by what _response looks at:
\* whether it is a genai ServerError, whether it has status_code 503, and which
\* of the texts its message contains
Errors ==
    { [name |-> "server 503", server_error |-> TRUE, status_code_503 |-> TRUE, text |-> {}],
      [name |-> "server 503 UNAVAILABLE", server_error |-> TRUE, status_code_503 |-> FALSE,
       text |-> {"503", "UNAVAILABLE"}],
      [name |-> "server overloaded", server_error |-> TRUE, status_code_503 |-> FALSE,
       text |-> {"overloaded"}],
      [name |-> "server 500", server_error |-> TRUE, status_code_503 |-> FALSE, text |-> {}],
      [name |-> "503", server_error |-> FALSE, status_code_503 |-> FALSE, text |-> {"503"}],
      [name |-> "overloaded", server_error |-> FALSE, status_code_503 |-> FALSE,
       text |-> {"overloaded"}],
      [name |-> "UNAVAILABLE", server_error |-> FALSE, status_code_503 |-> FALSE,
       text |-> {"UNAVAILABLE"}],
      [name |-> "unavailable", server_error |-> FALSE, status_code_503 |-> FALSE,
       text |-> {"unavailable"}],
      [name |-> "timed out", server_error |-> FALSE, status_code_503 |-> FALSE, text |-> {}],
      [name |-> "server 504 DEADLINE_EXCEEDED", server_error |-> TRUE,
       status_code_503 |-> FALSE, text |-> {"504", "DEADLINE_EXCEEDED"}] }

\* is_503_error of the except clause of _response
Is503Error(e) ==
    IF e.server_error
    THEN e.status_code_503 \/ "503" \in e.text \/ "UNAVAILABLE" \in e.text
    ELSE "503" \in e.text \/ "overloaded" \in e.text \/ "UNAVAILABLE" \in e.text

\* a backoff that waits the base delay every time
DelayConstant(k) == base_delay

\* delay = base_delay * (2 ** attempt), k being the attempt
Delay(k) == base_delay * (2 ^ k)

\* the threads that call the shared instance: call_model runs in a worker
\* thread of the executor, one per run of the workflow, and Router.classify in
\* the thread of the event loop
Workers == {"W1", "W2"}

\* how many characters the text has the provider answers with
AnswerLen == 2

\* what _response returns when the client answers: the text of the answer, or
\* with self.stream set the iterator of the provider's response chunks
Response(flag) == IF flag THEN "provider stream" ELSE "text"

\* ChatLLM._generate on what _response returned: AIMessage(content=output)
\* takes a text; the iterator of response objects is no message content
Generate(output) ==
    IF output = "text"
    THEN [status |-> "returned", value |-> "text"]
    ELSE [status |-> "raised", value |-> "ValidationError"]

\* ChatLLM._stream on what _response returned: one chunk for each element the
\* iteration of response_stream gives, the characters of a text; a provider
\* response object is no content of an AIMessageChunk
Stream(response_stream) ==
    IF response_stream = "text"
    THEN [status |-> "returned", value |-> "characters of the text"]
    ELSE [status |-> "raised", value |-> "ValidationError"]

\* a thread that has made no call: the call (op), where it is (pc: "client" in
\* the call of the provider's client, "sleep" in time.sleep, "yield" with the
\* generator of _stream suspended at its yield), the loop variable of
\* _response, what it slept and caught, self.stream as the call found it and
\* as the attempt in progress read it, and the chunks yielded
NoGen == [op |-> "none", status |-> "none", pc |-> "none", attempt |-> 0, sleeps |-> <<>>,
          errors |-> <<>>, value |-> "none", flag_before |-> FALSE,
          stream_read |-> FALSE, chunks |-> 0]

InitLLM ==
    /\ stream_flag = FALSE
    /\ gen = [w \in Workers |-> NoGen]
    /\ ngen = [w \in Workers |-> 0]

IdleLLM == InitLLM

\* how many calls a thread makes: the first thread all calls but one, one
\* after the other, and the second thread one that can come in at any moment
CallsOf(w) == IF w = "W1" THEN MaxCalls - 1 ELSE 1

\* the call of thread w starts: _response runs up to the client call of its
\* first attempt, which is the streaming one when self.stream is set
StartCall(w, op) ==
    /\ gen[w].status # "running"
    /\ ngen[w] < CallsOf(w)
    /\ gen' = [gen EXCEPT ![w] = [NoGen EXCEPT !.op = op, !.status = "running",
                                               !.pc = "client",
                                               !.flag_before = stream_flag,
                                               !.stream_read = stream_flag]]
    /\ ngen' = [ngen EXCEPT ![w] = @ + 1]
    /\ UNCHANGED stream_flag
    /\ UNCHANGED <<routerVars, cacheVars, pureVars, memVars, concVars>>

\* invoke on the shared instance by thread w: _generate starts and calls
\* _response, whatever the calls of other threads are doing
StartGenerate(w) == StartCall(w, "generate")

\* stream on the shared instance by thread w: the generator of _stream is
\* asked for its first chunk and calls _response
StartStream(w) == StartCall(w, "stream")

\* the client answers the attempt of w's call and _response returns.
\* _generate wraps the answer and returns; _stream sets self._llm.stream and
\* yields its first chunk, its generator staying suspended at the yield
ResponseReturns(w) ==
    /\ gen[w].pc = "client"
    /\ LET response == Response(gen[w].stream_read)
           r == IF gen[w].op = "generate" THEN Generate(response) ELSE Stream(response)
       IN /\ gen' = [gen EXCEPT ![w] =
                        IF gen[w].op = "stream" /\ r.status = "returned"
                        THEN [@ EXCEPT !.pc = "yield", !.chunks = 1]
                        ELSE [@ EXCEPT !.pc = "end", !.status = r.status, !.value = r.value]]
          /\ stream_flag' = IF gen[w].op = "stream" THEN TRUE ELSE stream_flag
    /\ UNCHANGED ngen
    /\ UNCHANGED <<routerVars, cacheVars, pureVars, memVars, concVars>>

\* the consumer asks the generator of w's _stream for the next chunk
NextChunk(w) ==
    /\ gen[w].pc = "yield"
    /\ gen[w].chunks < AnswerLen
    /\ gen' = [gen EXCEPT ![w].chunks = @ + 1]
    /\ UNCHANGED <<stream_flag, ngen>>
    /\ UNCHANGED <<routerVars, cacheVars, pureVars, memVars, concVars>>

\* the generator of w's _stream is asked for a chunk behind the last one and
\* ends
StreamEnds(w) ==
    /\ gen[w].pc = "yield"
    /\ gen[w].chunks = AnswerLen
    /\ gen' = [gen EXCEPT ![w].pc = "end", ![w].status = "returned",
                          ![w].value = Stream("text").value]
    /\ UNCHANGED <<stream_flag, ngen>>
    /\ UNCHANGED <<routerVars, cacheVars, pureVars, memVars, concVars>>

\* the client raises e in the attempt of w's call: a recognised overload
\* before the last attempt goes to sleep, anything else raises RuntimeError
ResponseFails(w, e) ==
    /\ gen[w].pc = "client"
    /\ IF Is503Error(e) /\ gen[w].attempt < response_max_retries - 1
       THEN gen' = [gen EXCEPT ![w].sleeps = Append(@, Delay(gen[w].attempt)),
                               ![w].errors = Append(@, e),
                               ![w].attempt = @ + 1,
                               ![w].pc = "sleep"]
       ELSE gen' = [gen EXCEPT ![w].errors = Append(@, e),
                               ![w].pc = "end",
                               ![w].status = "raised",
                               ![w].value = "RuntimeError"]
    /\ UNCHANGED <<stream_flag, ngen>>
    /\ UNCHANGED <<routerVars, cacheVars, pureVars, memVars, concVars>>

\* time.sleep of w's call is over: the next attempt reads self.stream as it
\* is now and calls the client
NextAttempt(w) ==
    /\ gen[w].pc = "sleep"
    /\ gen' = [gen EXCEPT ![w].pc = "client", ![w].stream_read = stream_flag]
    /\ UNCHANGED <<stream_flag, ngen>>
    /\ UNCHANGED <<routerVars, cacheVars, pureVars, memVars, concVars>>

-----------------------------------------------------------------------------
(* Specifications *)

NextRouter ==
    \/ ClassifyFastPath
    \/ \E raw \in RawOutputs : ClassifyAttempt(raw)

\* one call of Router.classify, the model answering anything on each attempt
InitSpec == InitRouter /\ IdleCache /\ IdlePure /\ IdleMemory /\ IdleLLM /\ IdleConc

Spec == InitSpec /\ [][NextRouter]_vars

NextFusion == DoFusion

\* the fusion of HybridSearch.query on any two result lists
InitSpecFusion == IdleRouter /\ IdleCache /\ InitFusion /\ IdleMemory /\ IdleLLM /\ IdleConc

SpecFusion == InitSpecFusion /\ [][NextFusion]_vars

NextRerank == DoRerank

\* rerank_chunk_level on any candidate list and any scores
InitSpecRerank == IdleRouter /\ IdleCache /\ InitRerank /\ IdleMemory /\ IdleLLM /\ IdleConc

SpecRerank == InitSpecRerank /\ [][NextRerank]_vars

NextHybrid ==
    \/ \E r \in Requests : BeginHybridQuery(r)
    \/ \E r \in Requests : LexicalAnswers(r)
    \/ \E r \in Requests : VectorAnswers(r)
    \/ \E r \in Requests : HybridResumes(r)
    \/ TickTTL

\* the corpus answers TheQuery with any two lists
InitAnyIndexes ==
    /\ cache = [key \in CacheKeys |-> NoEntry]
    /\ now = 0
    /\ nticks = 0
    /\ index \in AnyIndexes

\* requests calling HybridSearch.query through the cache, several in flight,
\* the indexes answering any two lists, while time passes
InitSpecHybrid == IdleRouter /\ InitAnyIndexes /\ IdlePure /\ IdleMemory /\ IdleLLM /\ InitCalls

SpecHybrid == InitSpecHybrid /\ [][NextHybrid]_vars

NextCache ==
    \/ \E r \in Requests : BeginHybridQuery(r)
    \/ \E r \in Requests : BeginReRankQuery(r)
    \/ \E r \in Requests : LexicalAnswers(r)
    \/ \E r \in Requests : VectorAnswers(r)
    \/ \E r \in Requests : HybridResumes(r)
    \/ \E r \in Requests : RerankResumes(r)
    \/ UpstreamChange
    \/ Tick

\* requests querying both stages through the result cache, several in flight,
\* while time passes and the corpus changes
InitSpecCache == IdleRouter /\ InitCache /\ IdlePure /\ IdleMemory /\ IdleLLM /\ InitCalls

SpecCache == InitSpecCache /\ [][NextCache]_vars

NextCorrupt ==
    \/ \E r \in Requests : BeginHybridQuery(r)
    \/ \E r \in Requests : BeginReRankQuery(r)
    \/ \E r \in Requests : LexicalAnswers(r)
    \/ \E r \in Requests : VectorAnswers(r)
    \/ \E r \in Requests : HybridResumes(r)
    \/ \E r \in Requests : RerankResumes(r)
    \/ CorruptEntry
    \/ Tick

\* requests querying both stages through a cache whose entries can get damaged
InitSpecCorrupt == IdleRouter /\ InitCache /\ IdlePure /\ IdleMemory /\ IdleLLM /\ InitCalls

SpecCorrupt == InitSpecCorrupt /\ [][NextCorrupt]_vars

NextChat ==
    \/ \E r \in Requests : ChatBegins(r)
    \/ \E c \in Tasks \ Requests : ProductQueryStarts(c)
    \/ \E t \in Tasks : LexicalAnswers(t)
    \/ \E t \in Tasks : VectorAnswers(t)
    \/ \E t \in Tasks : HybridResumes(t)
    \/ \E t \in Tasks : IndexQueryRaises(t)
    \/ \E r \in Requests : RerankResumes(r)
    \/ \E r \in Requests : RelevanceModelRaises(r)
    \/ \E r \in Requests : ComparisonResumes(r)
    \/ \E r \in Requests : StreamStarts(r)
    \/ \E r \in Requests : InfoLine(r)
    \/ \E r \in Requests : WorkflowStarts(r)
    \/ \E r \in Requests : ChunkStreamed(r)
    \/ \E r \in Requests : WorkflowEnds(r)
    \/ \E r \in Requests : WorkflowRaises(r)
    \/ \E r \in Requests : StreamClosed(r)
    \/ \E r \in Requests : WorkflowCancelled(r)

\* requests to the chat endpoint, several in flight: the stage of the route
\* suspended at its awaits, the reply generated item by item, the workflow
\* run when the generator reaches it
InitSpecChat == IdleRouter /\ IdleCache /\ IdlePure /\ InitMemory /\ IdleLLM /\ InitClients

SpecChat == InitSpecChat /\ [][NextChat]_vars

NextLLM ==
    \/ \E w \in Workers : StartGenerate(w)
    \/ \E w \in Workers : StartStream(w)
    \/ \E w \in Workers : ResponseReturns(w)
    \/ \E w \in Workers : NextChunk(w)
    \/ \E w \in Workers : StreamEnds(w)
    \/ \E w \in Workers, e \in Errors : ResponseFails(w, e)
    \/ \E w \in Workers : NextAttempt(w)

\* calls of invoke and stream on the shared model instance by two threads,
\* interleaved at every client call, sleep and yield, the provider answering or
\* failing on each attempt
InitSpecLLM == IdleRouter /\ IdleCache /\ IdlePure /\ IdleMemory /\ InitLLM /\ IdleConc

SpecLLM == InitSpecLLM /\ [][NextLLM]_vars

NextConc ==
    \/ \E r \in Requests : BeginHybridQuery(r)
    \/ \E r \in Requests : BeginReRankQuery(r)
    \/ \E r \in Requests : LexicalAnswers(r)
    \/ \E r \in Requests : VectorAnswers(r)
    \/ \E r \in Requests : HybridResumes(r)
    \/ \E r \in Requests : RerankResumes(r)
    \/ UpstreamChange

\* two requests in flight on a cold cache, interleaved at every await that
\* suspends, while the corpus changes
InitSpecConc == IdleRouter /\ InitCache /\ IdlePure /\ IdleMemory /\ IdleLLM /\ InitConc

SpecConc == InitSpecConc /\ [][NextConc]_vars

NextTurns ==
    \/ \E r \in Requests : TurnBegins(r)
    \/ \E r \in Requests : WorkflowEnds(r)
    \/ \E r \in Requests : WorkflowRaises(r)

\* runs of the compiled workflow on one thread with input lists of any length,
\* the model answering or failing, a second caller's run overlapping
InitSpecTurns == IdleRouter /\ IdleCache /\ IdlePure /\ InitMemory /\ IdleLLM /\ InitCallers

SpecTurns == InitSpecTurns /\ [][NextTurns]_vars

NextOutage ==
    \/ \E r \in Requests : BeginHybridQuery(r)
    \/ \E r \in Requests : BeginReRankQuery(r)
    \/ \E r \in Requests : LexicalAnswers(r)
    \/ \E r \in Requests : VectorAnswers(r)
    \/ \E r \in Requests : HybridResumes(r)
    \/ \E r \in Requests : RerankResumes(r)
    \/ \E r \in Requests : IndexQueryRaises(r)
    \/ \E r \in Requests : RelevanceModelRaises(r)
    \/ UpstreamChange

\* requests querying both stages through the result cache, several in flight,
\* while an index or the relevance model can be down and the corpus changes
InitSpecOutage == IdleRouter /\ InitCache /\ IdlePure /\ IdleMemory /\ IdleLLM /\ InitCalls

SpecOutage == InitSpecOutage /\ [][NextOutage]_vars

NextIngested ==
    \/ DoFusion
    \/ DoRerank

\* the fusion and rerank_chunk_level on passages of the ingested corpus
InitSpecIngested == IdleRouter /\ IdleCache /\ InitIngested /\ IdleMemory /\ IdleLLM /\ IdleConc

SpecIngested == InitSpecIngested /\ [][NextIngested]_vars

-----------------------------------------------------------------------------
(* Properties of Router.classify (specification Spec) *)

\* C1: classify never raises to its caller, whatever the generation capability
\* does on each attempt, a failing invoke included.
C1_ClassifyNeverRaises == pc # "raised"

\* C7: an utterance that matches a chat pattern is answered by the fast path:
\* classify returns the chat decision whose infor is the trimmed utterance, and
\* the model is never invoked.
C7_FastPathChatWithoutModel ==
    MatchesChatPattern(user_input) =>
        /\ calls = 0
        /\ pc \in {"call", "done"}
        /\ pc = "done" =>
              result = [router |-> "chat", infor |-> StrV(Strip(user_input)),
                        products |-> Absent]

C7_Witness ==
    /\ pc = "done"
    /\ via = "fast"
    /\ calls = 0
    /\ Strip(user_input) # user_input

\* C8: with no fast-path match and a failure on each of the 1 + max_retries
\* attempts, classify returns the retrieval decision of the trimmed utterance.
C8_FallbackIsRetrievalOfUtterance ==
    (~MatchesChatPattern(user_input) /\ failures = max_retries + 1) =>
        /\ pc = "done"
        /\ calls = max_retries + 1
        /\ result = [router |-> "retrieval", infor |-> StrV(Strip(user_input)),
                     products |-> Absent]

C8_Witness ==
    /\ pc = "done"
    /\ via = "fallback"
    /\ failures = max_retries + 1
    /\ Strip(user_input) # user_input
    /\ Strip(user_input) # <<>>

\* C9: a model answer that satisfies a decision shape comes back as a decision
\* of the same variant and payload, and the tag classify returns is always one
\* of chat, retrieval, comparison.
C9_DecisionKeepsVariant ==
    pc = "done" =>
        /\ result.router \in {"chat", "retrieval", "comparison"}
        /\ via = "model" =>
              /\ result.router = StrictJsonLoad(accepted).router.v
              /\ result.router = "retrieval" =>
                    result.infor = StrictJsonLoad(accepted).infor

\* C10: every retrieval decision classify returns has an infor that is not
\* empty after trimming, on the validated path and on the fallback path.
C10_RetrievalInfoNonEmpty ==
    (pc = "done" /\ result.router = "retrieval") =>
        /\ result.infor.t = "str"
        /\ Strip(result.infor.v) # <<>>

\* C11: a comparison answer with fewer than two product names that are
\* non-empty after trimming never becomes a decision: each such answer is a
\* failed attempt, classify goes on to the next attempt or to the fallback, and
\* every comparison decision carries at least two trimmed, non-empty names.
C11_ShortComparisonNeverDecides ==
    /\ short_comparisons <= failures
    /\ accepted # NoRaw => ~IsShortComparison(accepted)
    /\ (short_comparisons > 0 /\ pc = "retry") => attempt = failures + 1
    /\ short_comparisons = max_retries + 1 => (pc = "done" /\ via = "fallback")
    /\ (pc = "done" /\ result.router = "comparison") =>
          /\ result.products.t = "list"
          /\ Len(result.products.v) >= 2
          /\ \A i \in 1..Len(result.products.v) :
                /\ result.products.v[i] # <<>>
                /\ Strip(result.products.v[i]) = result.products.v[i]

C11_Witness ==
    /\ pc = "done"
    /\ via = "model"
    /\ short_comparisons = 2
    /\ failures = 2
    /\ result.router = "comparison"
    /\ result.products.v # accepted.val.products.v

-----------------------------------------------------------------------------
(* Properties of the fusion (specification SpecFusion) *)

\* the product ids of the passages the two indexes returned
InputPids == { Pid(d) : d \in Range(inp.bm25_docs) \cup Range(inp.vector_docs) }

\* score_dict[pid]
ScoreOf(d, pid) == d[CHOOSE i \in 1..Len(d) : d[i].pid = pid].score

\* C3, as stated: a product present in both lists scores w_lexical + w_vector,
\* and a product present only in the vector list scores exactly w_vector.
C3_ScoreIsSumOfSourceWeights ==
    out.fn = "fuse" =>
        \A pid \in InputPids :
            LET inLex == CountPid(inp.bm25_docs, pid) > 0
                inVec == CountPid(inp.vector_docs, pid) > 0
            IN /\ (inLex /\ inVec) =>
                    ScoreOf(out.score_dict, pid) = inp.bm25_weight + (10 - inp.bm25_weight)
               /\ (~inLex /\ inVec) =>
                    ScoreOf(out.score_dict, pid) = 10 - inp.bm25_weight

\* C3, amended: the fused score of a product is w_lexical for each of its
\* passages in the lexical list plus w_vector for each of its passages in the
\* vector list; every product of the lists has exactly one score.
C3_ScoreCountsEveryPassage ==
    out.fn = "fuse" =>
        /\ { out.score_dict[i].pid : i \in 1..Len(out.score_dict) } = InputPids
        /\ Len(out.score_dict) = Cardinality(InputPids)
        /\ \A pid \in InputPids :
              ScoreOf(out.score_dict, pid) =
                  CountPid(inp.bm25_docs, pid) * inp.bm25_weight
                      + CountPid(inp.vector_docs, pid) * (10 - inp.bm25_weight)

C3_Witness ==
    /\ out.fn = "fuse"
    /\ \E pid \in InputPids :
          /\ CountPid(inp.bm25_docs, pid) = 2
          /\ CountPid(inp.vector_docs, pid) >= 1
          /\ ScoreOf(out.score_dict, pid) > 10

-----------------------------------------------------------------------------
(* Properties of rerank_chunk_level (specification SpecRerank) *)

\* no two passages of the list belong to the same product
UniquePids(s) == \A i, j \in 1..Len(s) : i # j => Pid(s[i]) # Pid(s[j])

\* candidates i and j share a product and i scores less
LosesTo(i, j) ==
    /\ Pid(inp.docs[i]) = Pid(inp.docs[j])
    /\ inp.scores[i] < inp.scores[j]

\* C4, as stated: of two candidates of one product with scores s1 < s2, the
\* output contains the one scored s2 and never the one scored s1; each
\* product_id appears at most once.
C4_HigherScoredPassageSurvives ==
    out.fn = "rerank" =>
        /\ \A i, j \in 1..Len(inp.docs) :
              LosesTo(i, j) =>
                  /\ inp.docs[j] \in Range(out.result)
                  /\ inp.docs[i] \notin Range(out.result)
        /\ UniquePids(out.result)

\* C4, amended: the output never contains the candidate scored s1; a product
\* that is in the output is there with a passage of its highest score; each
\* product_id appears at most once; and every product is in the output when the
\* candidates have at most topk products.
C4_BestPassagePerReturnedProduct ==
    out.fn = "rerank" =>
        /\ \A i, j \in 1..Len(inp.docs) :
              LosesTo(i, j) => inp.docs[i] \notin Range(out.result)
        /\ \A r \in 1..Len(out.result) :
              \E j \in 1..Len(inp.docs) :
                  /\ inp.docs[j] = out.result[r]
                  /\ \A i \in 1..Len(inp.docs) :
                        Pid(inp.docs[i]) = Pid(inp.docs[j]) =>
                            inp.scores[i] <= inp.scores[j]
        /\ UniquePids(out.result)
        /\ Cardinality({ Pid(d) : d \in Range(inp.docs) }) <= inp.topk =>
              { Pid(d) : d \in Range(out.result) } = { Pid(d) : d \in Range(inp.docs) }

C4_Witness ==
    /\ out.fn = "rerank"
    /\ \E i, j \in 1..Len(inp.docs) :
          /\ i < j
          /\ LosesTo(i, j)
          /\ inp.docs[j] \in Range(out.result)
          /\ Len(out.result) < Cardinality({ Pid(d) : d \in Range(inp.docs) })

-----------------------------------------------------------------------------
(* Properties of HybridSearch.query (specification SpecHybrid) *)

\* the call of requester r has returned or raised
Completed(r) == inflight[r].op # "none" /\ inflight[r].pc \in {"done", "raised"}

\* C2: the list HybridSearch.query returns, freshly computed or served from
\* the cache, has at most topK passages and no two of the same product_id.
C2_AtMostTopKNoDuplicateProduct ==
    \A r \in Requests :
        (inflight[r].op = "hybrid" /\ inflight[r].pc = "done") =>
            /\ Len(inflight[r].result) <= HybridK
            /\ UniquePids(inflight[r].result)

\* a call served from the entry another requester's call stored while this
\* requester's first call was waiting for the indexes
C2_Witness ==
    \E r \in Requests :
        /\ inflight[r].op = "hybrid"
        /\ inflight[r].pc = "done"
        /\ inflight[r].lex_queries = 0
        /\ inflight[r].pre # NoEntry
        /\ Len(inflight[r].result) = HybridK
        /\ \E q \in Requests \ {r} :
              inflight[q].fused /\ inflight[r].pre = inflight[q].wrote_hybrid

-----------------------------------------------------------------------------
(* Properties of the result cache (specification SpecCache) *)

\* entry e can be read at time t
LiveAt(e, t) == e # NoEntry /\ e.expire_time > t

\* entry e exists and its TTL has elapsed at time t
ExpiredAt(e, t) == e # NoEntry /\ t >= e.expire_time

\* the entry would have been served: unexpired and not an empty list
Servable(e, t) == LiveAt(e, t) /\ e.value # <<>>

\* C5: a call that finds an unexpired entry under its key returns the stored
\* list, whatever it is, and calls neither index, nor fusion, nor the
\* relevance model.
C5_HitBypassesIndexes ==
    \A r \in Requests :
        (Completed(r) /\ LiveAt(inflight[r].pre, inflight[r].t)) =>
            /\ inflight[r].result = inflight[r].pre.value
            /\ inflight[r].lex_queries = 0
            /\ inflight[r].vec_queries = 0
            /\ inflight[r].fusion_calls = 0
            /\ inflight[r].model_calls = 0

\* a call that was served from the cache found an unexpired entry
ServedWithinTTL(me) ==
    /\ (me.op = "hybrid" /\ me.lex_queries = 0) => LiveAt(me.pre, me.t)
    /\ (me.op = "rerank" /\ me.fusion_calls = 0) => LiveAt(me.pre, me.t)
    /\ (me.op = "rerank" /\ me.fusion_calls = 1 /\ me.lex_queries = 0) =>
          LiveAt(me.pre_hybrid, me.t)

\* a call that stored a list stored the one it went on with
StoredWhatItReturned(me) ==
    /\ me.fused => me.wrote_hybrid.value = me.docs
    /\ me.reranked => me.wrote_rerank.value = me.result

\* every cache.set gives the entry 24 hours from the moment of the write
WritesCarryTTL ==
    \A key \in CacheKeys :
        (cache'[key] # cache[key] /\ cache'[key].readable) =>
            cache'[key].expire_time = now + TTL

\* C6, as stated, for the calls that have returned
ExpiredEntryRecomputedFromIndexes ==
    \A r \in Requests :
        Completed(r) =>
            LET me == inflight[r]
            IN /\ ServedWithinTTL(me)
               /\ StoredWhatItReturned(me)
               /\ ExpiredAt(me.pre, me.t) =>
                     /\ me.lex_queries = 1
                     /\ me.vec_queries = 1
                     /\ me.result # me.pre.value => me.source # me.pre.source

\* C6, as stated: entries are written with a 24h TTL and never served after
\* it; a query after expiry is a miss, queries the indexes again, and returns
\* something else than the expired entry only if the index results changed.
C6_ExpiredEntryRecomputedFromIndexes ==
    /\ []ExpiredEntryRecomputedFromIndexes
    /\ [][WritesCarryTTL]_vars

\* C6, amended, for the calls that have returned
ExpiredEntryRecomputedAtItsStage ==
    \A r \in Requests :
        Completed(r) =>
            LET me == inflight[r]
            IN /\ ServedWithinTTL(me)
               /\ StoredWhatItReturned(me)
               /\ ExpiredAt(me.pre, me.t) =>
                     /\ me.op = "hybrid" =>
                           /\ me.lex_queries = 1
                           /\ me.vec_queries = 1
                     /\ me.op = "rerank" =>
                           /\ me.fusion_calls = 1
                           /\ me.vec_queries = me.lex_queries
                           /\ me.lex_queries = 0 <=> Servable(me.pre_hybrid, me.t)
                           /\ me.model_calls = 1 <=> me.docs # <<>>
                     /\ me.result # me.pre.value => me.source # me.pre.source

\* C6, amended: entries are written with a 24h TTL and never served after it;
\* a query after expiry is a miss at its stage and recomputes the stage:
\* HybridSearch.query queries both indexes, ReRank.query calls
\* HybridSearch.query (which queries the indexes unless an unexpired, non-empty
\* fusion entry serves it) and reranks what it returns; the result differs
\* from the expired entry only if the index results changed.
C6_ExpiredEntryRecomputedAtItsStage ==
    /\ []ExpiredEntryRecomputedAtItsStage
    /\ [][WritesCarryTTL]_vars

\* ReRank.query found its entry expired and the fusion entry, which another
\* call had stored since, still good: no index query, another result
C6_Witness ==
    \E r \in Requests :
        /\ inflight[r].op = "rerank"
        /\ inflight[r].pc = "done"
        /\ ExpiredAt(inflight[r].pre, inflight[r].t)
        /\ inflight[r].lex_queries = 0
        /\ inflight[r].result # inflight[r].pre.value

-----------------------------------------------------------------------------
(* Properties of the runs of the workflow (specification SpecTurns) and of the *)
(* chat endpoint (specification SpecChat)                                      *)

\* the ids of the messages of a list
Ids(msgs) == { msgs[i].id : i \in 1..Len(msgs) }

\* the run of the workflow for r's request has completed: call_model returned
\* and the state of the run was stored
TurnRan(r) == turn[r].run = "completed"

\* C12, as stated: with summary_threshold = 10, the turn that appends the 10th
\* message of the thread compacts and leaves exactly 3 stored messages.
C12_TenthMessageCompacts ==
    \A r \in Requests :
        (TurnRan(r) /\ Len(turn[r].before) < 10 /\ Len(turn[r].state) >= 10) =>
            /\ turn[r].compacted
            /\ Len(turn[r].after) = 3

\* C12, amended: with summary_threshold = 10, a turn compacts exactly when its
\* newest message is the 11th of the thread or a later one (10 messages come
\* before it); a turn whose newest message is the 10th does not compact and
\* leaves 11 stored messages; after a compacting turn the stored history has
\* exactly 3 entries (summary, last user message, response).
C12_EleventhMessageCompacts ==
    \A r \in Requests :
        TurnRan(r) =>
            /\ turn[r].compacted <=> Len(turn[r].state) >= 11
            /\ Len(turn[r].state) = 10 => (~turn[r].compacted /\ Len(turn[r].after) = 11)
            /\ turn[r].compacted =>
                  /\ Len(turn[r].after) = 3
                  /\ turn[r].after[1].content = <<"summary", turn[r].n>>
                  /\ turn[r].after[2].type = "human"
                  /\ turn[r].after[3].content = <<"response", turn[r].n>>

\* the turn whose newest message is the 11th of its thread
C12_Witness ==
    \E r \in Requests :
        /\ TurnRan(r)
        /\ turn[r].compacted
        /\ Len(turn[r].before) = 10
        /\ Len(turn[r].state) = 11
        /\ Len(turn[r].after) = 3

\* what a compacting turn leaves as the messages of its run
CompactionReplacesHistory ==
    \A r \in Requests :
        (TurnRan(r) /\ turn[r].compacted) =>
            LET t == turn[r]
                newest == t.state[Len(t.state)]
            IN /\ Len(t.after) = 3
               /\ t.after[1].type = "ai"
               /\ t.after[1].content = <<"summary", t.n>>
               /\ t.summarized = SubSeq(t.state, 1, Len(t.state) - 1)
               /\ t.after[2].type = "human"
               /\ t.after[2].content = newest.content
               /\ t.after[2].content = <<"user", t.n>>
               /\ t.after[3].type = "ai"
               /\ t.after[3].content = <<"response", t.n>>
               /\ Ids(t.after) \cap Ids(t.state) = {}
               /\ Ids(t.before) \subseteq Ids(t.state)
               /\ Cardinality(Ids(t.after)) = 3

\* the run that ends in this step leaves its messages as the stored messages of
\* its thread
TurnStoresItsState ==
    \A r \in Requests :
        (turn[r].run = "running" /\ turn'[r].run = "completed") =>
            memory'[turn[r].thread] = turn'[r].after

\* C13: when a turn compacts, the stored history after it is exactly
\* [summary, newest user message, response] in that order, the summary being
\* made of all the messages before the newest one, and no message that was
\* stored before the turn or came in with it (the original of the newest user
\* message included) is stored any more.
C13_CompactionReplacesHistory ==
    /\ []CompactionReplacesHistory
    /\ [][TurnStoresItsState]_vars

\* a compacting turn of two input messages on a thread of nine, and its three
\* messages are the stored ones
C13_Witness ==
    \E r \in Requests :
        /\ TurnRan(r)
        /\ turn[r].compacted
        /\ Len(turn[r].inputs) = 2
        /\ Len(turn[r].before) = 9
        /\ memory[turn[r].thread] = turn[r].after
        /\ Len(turn[r].after) = 3

\* C14: a turn takes the compaction branch if and only if the messages of the
\* thread state other than the newest one number at least summary_threshold;
\* with fewer there is no summarization call and every stored message stays.
C14_CompactionIffThreshold ==
    \A r \in Requests :
        TurnRan(r) =>
            /\ turn[r].compacted <=> (Len(turn[r].state) - 1 >= summary_threshold)
            /\ turn[r].summarize_calls = (IF turn[r].compacted THEN 1 ELSE 0)
            /\ ~turn[r].compacted =>
                  /\ Len(turn[r].after) = Len(turn[r].state) + 1
                  /\ SubSeq(turn[r].after, 1, Len(turn[r].before)) = turn[r].before
                  /\ SubSeq(turn[r].after, 1, Len(turn[r].state)) = turn[r].state

\* the turn with exactly summary_threshold messages in its state: it appends
C14_Witness ==
    \E r \in Requests :
        /\ TurnRan(r)
        /\ ~turn[r].compacted
        /\ Len(turn[r].state) = summary_threshold
        /\ Len(turn[r].after) = summary_threshold + 1

\* C17: on the retrieval route a failure of the retrieval stage still ends in
\* a normal reply stream (the no-information path), not in a request error.
C17_RetrievalFailureDegrades ==
    \A r \in Requests :
        (turn[r].route = "retrieval" /\ inflight[r].pc = "raised") =>
            turn[r].reply = "stream"

\* what a run of the workflow sees: the messages stored for its thread, then
\* its inputs; no message of another thread; the run of a request without
\* thread_id, when the client sent no other request on the thread meanwhile,
\* starts on an empty history
StatePerThread ==
    \A r \in Requests :
        turn[r].run # "none" =>
            LET t == turn[r]
            IN /\ SubSeq(t.state, 1, Len(t.before)) = t.before
               /\ Len(t.state) = Len(t.before) + Len(t.inputs)
               /\ \A i \in 1..Len(t.inputs) :
                     t.state[Len(t.before) + i].content = t.inputs[i].content
               /\ \A o \in DOMAIN memory :
                     o # t.thread => Ids(memory[o]) \cap Ids(t.state) = {}
               /\ (t.given = NoThread /\ ~t.overlapped) => t.before = <<>>
               /\ t.given # NoThread => t.thread = t.given

\* a step changes the stored messages of a thread only when a run on that
\* thread starts or ends in it; a run that starts loads what is stored for its
\* thread; and the thread a request without thread_id is given has no stored
\* message and no request
TurnsTouchOwnThread ==
    /\ \A o \in DOMAIN memory :
          memory'[o] # memory[o] =>
              \E r \in Requests : turn'[r].thread = o /\ turn'[r].run # turn[r].run
    /\ \A r \in Requests :
          (turn[r].run # "running" /\ turn'[r].run = "running") =>
              turn'[r].before = memory[turn'[r].thread]
    /\ \A r \in Requests :
          (turn'[r].n # turn[r].n /\ turn'[r].given = NoThread) =>
              /\ memory[turn'[r].thread] = <<>>
              /\ \A q \in Requests : turn[q].thread # turn'[r].thread

\* C19: conversation state is per thread: a turn reads the messages stored for
\* its thread and nothing else, changes the stored messages of no other
\* thread, a later turn on the thread sees what the thread's earlier turns
\* stored, and a request without thread_id runs on a fresh thread with an
\* empty history.
C19_StatePerThread ==
    /\ []StatePerThread
    /\ [][TurnsTouchOwnThread]_vars

\* a request without thread_id has run its turn on an empty history while the
\* other thread holds the messages of two turns
C19_Witness ==
    \E r \in Requests :
        /\ TurnRan(r)
        /\ turn[r].given = NoThread
        /\ ~turn[r].overlapped
        /\ turn[r].before = <<>>
        /\ \E o \in DOMAIN memory : o # turn[r].thread /\ Len(memory[o]) >= 4
        /\ Len(turn[r].after) = 2

-----------------------------------------------------------------------------
(* Properties of the generation model (specification SpecLLM) *)

\* the call of thread w has ended and the provider answered its last attempt
Answered(w) == gen[w].status \in {"returned", "raised"} /\ gen[w].value # "RuntimeError"

\* C15: after any sequence of calls on the shared instance, a call the
\* provider answers keeps its interface: invoke returns one complete text and
\* stream yields chunks of text, whatever calls came before it.
C15_InterfaceKept ==
    \A w \in Workers :
        /\ (gen[w].op = "generate" /\ Answered(w)) =>
              (gen[w].status = "returned" /\ gen[w].value = "text")
        /\ (gen[w].op = "stream" /\ Answered(w)) => gen[w].status = "returned"

\* the first i errors of the call of thread w were recognised overloads
OverloadsUpTo(w, i) == \A j \in 1..i : Is503Error(gen[w].errors[j])

\* C16, amended: _response makes at most 3 attempts; it waits
\* base_delay * 2^attempt (2 s, then 4 s) after an overload it recognises (a
\* genai ServerError with status code 503 or with 503 or UNAVAILABLE in its
\* text; any other error with 503 or UNAVAILABLE in its text, or overloaded in
\* any case of the letters) and tries again; it returns as soon as the client
\* answers; it raises when the third attempt hits such an overload too; and
\* it raises at once, without a wait, on every other error.
C16_OverloadRetriedWithBackoff ==
    \A w \in Workers :
      gen[w].op # "none" =>
        LET g == gen[w]
            n == Len(g.errors)
        IN /\ n <= response_max_retries
           /\ g.attempt <= response_max_retries - 1
           /\ Len(g.sleeps) <= response_max_retries - 1
           /\ \A i \in 1..Len(g.sleeps) :
                 /\ g.sleeps[i] = base_delay * (2 ^ (i - 1))
                 /\ Is503Error(g.errors[i])
           /\ g.sleeps = SubSeq(<<2, 4>>, 1, Len(g.sleeps))
           /\ g.status = "running" =>
                 (OverloadsUpTo(w, n) /\ Len(g.sleeps) = n /\ g.attempt = n)
           /\ g.pc = "sleep" => n >= 1
           /\ g.pc = "yield" => n <= response_max_retries - 1
           /\ (g.status # "running" /\ g.value # "RuntimeError") =>
                 (OverloadsUpTo(w, n) /\ Len(g.sleeps) = n /\ n <= response_max_retries - 1)
           /\ (n = response_max_retries /\ OverloadsUpTo(w, n)) =>
                 /\ g.status = "raised"
                 /\ g.value = "RuntimeError"
                 /\ g.sleeps = <<2, 4>>
           /\ g.value = "RuntimeError" =>
                 /\ Len(g.sleeps) = n - 1
                 /\ (n < response_max_retries => ~Is503Error(g.errors[n]))

\* a call whose three attempts hit the overload, while the call of another
\* thread is in progress
C16_Witness ==
    \E w \in Workers :
        /\ gen[w].status = "raised"
        /\ gen[w].value = "RuntimeError"
        /\ Len(gen[w].errors) = response_max_retries
        /\ OverloadsUpTo(w, response_max_retries)
        /\ gen[w].sleeps = <<2, 4>>
        /\ \E o \in Workers \ {w} : gen[o].status = "running"

\* the error reports a transient overload: the status code 503, or 503,
\* unavailable or overloaded in its text, whatever the class of the error and
\* the case of the letters
IsTransientOverload(e) ==
    \/ e.status_code_503
    \/ e.text \cap {"503", "UNAVAILABLE", "unavailable", "overloaded"} # {}

\* C16, as stated: _response makes at most 3 attempts; an attempt before the
\* third that hits a transient overload (503 / unavailable / overloaded) is
\* followed by a wait of base_delay * 2^attempt and another attempt; the call
\* raises on an overload only when its third attempt hit it.
C16_TransientOverloadRetried ==
    \A w \in Workers :
      gen[w].op # "none" =>
        LET g == gen[w]
            n == Len(g.errors)
        IN /\ n <= response_max_retries
           /\ \A i \in 1..n :
                 (IsTransientOverload(g.errors[i]) /\ i < response_max_retries) =>
                    /\ ~(g.status = "raised" /\ g.value = "RuntimeError" /\ n = i)
                    /\ Len(g.sleeps) >= i
                    /\ g.sleeps[i] = Delay(i - 1)
           /\ (n = response_max_retries
               /\ \A i \in 1..n : IsTransientOverload(g.errors[i])) =>
                 (g.status = "raised" /\ g.value = "RuntimeError")

-----------------------------------------------------------------------------
(* Properties of the cache under damaged entries (specification SpecCorrupt) *)

\* C18: a call that finds an unexpired entry it cannot read treats it as a
\* miss: it does not raise, and it recomputes the result of its stage.
C18_CorruptEntryIsMiss ==
    \A r \in Requests :
        (/\ Completed(r)
         /\ LiveAt(inflight[r].pre, inflight[r].t)
         /\ ~inflight[r].pre.readable) =>
            /\ inflight[r].pc = "done"
            /\ inflight[r].op = "hybrid" => inflight[r].lex_queries = 1
            /\ inflight[r].op = "rerank" => inflight[r].fusion_calls = 1

-----------------------------------------------------------------------------
(* The representative passage of the fusion (specification SpecFusion) *)

\* the first passage of product pid in the lexical list followed by the
\* vector list
FirstObserved(pid) ==
    LET seen == inp.bm25_docs \o inp.vector_docs
    IN seen[CHOOSE i \in 1..Len(seen) :
                /\ Pid(seen[i]) = pid
                /\ \A j \in 1..(i - 1) : Pid(seen[j]) # pid]

\* C20: each entry of the fusion output carries the first passage observed for
\* its product, the lexical results being processed before the vector results.
C20_FirstObservedPassageKept ==
    out.fn = "fuse" =>
        \A i \in 1..Len(out.result) :
            out.result[i] = FirstObserved(Pid(out.result[i]))

-----------------------------------------------------------------------------
(* Order of the results of rerank_chunk_level and of the fusion *)

\* the position of the first passage of product pid in list s
FirstIndex(s, pid) ==
    CHOOSE i \in 1..Len(s) :
        /\ Pid(s[i]) = pid
        /\ \A j \in 1..(i - 1) : Pid(s[j]) # pid

\* the highest score the relevance model gave a candidate of product pid
MaxScoreOf(pid) ==
    CHOOSE m \in 1..MaxScore :
        /\ \E i \in 1..Len(inp.docs) : Pid(inp.docs[i]) = pid /\ inp.scores[i] = m
        /\ \A i \in 1..Len(inp.docs) : Pid(inp.docs[i]) = pid => inp.scores[i] <= m

\* product p comes before product q in the order by maximum score,
\* descending, ties by first appearance among the candidates
RerankBefore(p, q) ==
    \/ MaxScoreOf(p) > MaxScoreOf(q)
    \/ /\ MaxScoreOf(p) = MaxScoreOf(q)
       /\ FirstIndex(inp.docs, p) < FirstIndex(inp.docs, q)

\* C21: rerank_chunk_level returns at most topK passages, one per product,
\* ordered by each product's maximum score in descending order; products with
\* equal maximum scores keep the order of their first appearance in the
\* candidate list; the returned products are the first of that order.
C21_RerankOrderedByMaxScoreStable ==
    out.fn = "rerank" =>
        LET pids == { Pid(d) : d \in Range(inp.docs) }
            n == Cardinality(pids)
        IN /\ Len(out.result) = (IF n < inp.topk THEN n ELSE inp.topk)
           /\ Range(out.result) \subseteq Range(inp.docs)
           /\ UniquePids(out.result)
           /\ \A r \in 1..(Len(out.result) - 1) :
                 RerankBefore(Pid(out.result[r]), Pid(out.result[r + 1]))
           /\ \A q \in pids \ { Pid(d) : d \in Range(out.result) } :
                 \A r \in 1..Len(out.result) : RerankBefore(Pid(out.result[r]), q)

\* two products tie on their maximum score; the one that appears first among
\* the candidates reaches that score only with a later passage, and is returned
\* first
C21_Witness ==
    /\ out.fn = "rerank"
    /\ Len(out.result) = 2
    /\ Len(inp.docs) = 3
    /\ MaxScoreOf(Pid(out.result[1])) = MaxScoreOf(Pid(out.result[2]))
    /\ out.result[1] = inp.docs[3]
    /\ out.result[2] = inp.docs[2]
    /\ Pid(inp.docs[1]) = Pid(inp.docs[3])

\* the passages in the order the fusion sees them: lexical, then vector
SeenOrder == inp.bm25_docs \o inp.vector_docs

\* product p comes before product q in the order by fused score, descending,
\* ties by first-seen order
FusionBefore(p, q) ==
    \/ ScoreOf(out.score_dict, p) > ScoreOf(out.score_dict, q)
    \/ /\ ScoreOf(out.score_dict, p) = ScoreOf(out.score_dict, q)
       /\ FirstIndex(SeenOrder, p) < FirstIndex(SeenOrder, q)

\* C22: the fusion output is the topK products with the highest fused scores
\* in descending score order; products with equal fused scores appear in
\* first-seen order, all lexical results being seen before all vector results.
C22_FusionOrderedByScoreStable ==
    out.fn = "fuse" =>
        LET n == Cardinality(InputPids)
        IN /\ Len(out.result) = (IF n < inp.k THEN n ELSE inp.k)
           /\ UniquePids(out.result)
           /\ { Pid(d) : d \in Range(out.result) } \subseteq InputPids
           /\ \A r \in 1..(Len(out.result) - 1) :
                 FusionBefore(Pid(out.result[r]), Pid(out.result[r + 1]))
           /\ \A q \in InputPids \ { Pid(d) : d \in Range(out.result) } :
                 \A r \in 1..Len(out.result) : FusionBefore(Pid(out.result[r]), q)

\* two products tie on the fused score; the one returned first is in the
\* lexical list only, the other is first in the vector list
C22_Witness ==
    /\ out.fn = "fuse"
    /\ Len(out.result) = 2
    /\ ScoreOf(out.score_dict, Pid(out.result[1])) = ScoreOf(out.score_dict, Pid(out.result[2]))
    /\ CountPid(inp.vector_docs, Pid(out.result[1])) = 0
    /\ CountPid(inp.bm25_docs, Pid(out.result[2])) = 0
    /\ Len(inp.vector_docs) >= 1
    /\ Pid(inp.vector_docs[1]) = Pid(out.result[2])

-----------------------------------------------------------------------------
(* The classification loop of Router.classify (specification Spec) *)

\* what holds of the invocations made so far in one classify call
AttemptsWellFormed ==
    /\ calls <= 1 + max_retries
    /\ Len(sent) = calls
    /\ \A i \in 1..Len(sent) :
          /\ sent[i].user = user_input
          /\ sent[i].system =
                (IF i = 1 THEN "router prompt" ELSE "router prompt + strict addition")
    /\ via = "model" =>
          /\ ParseAndValidate(accepted) = result
          /\ failures = calls - 1
    /\ via = "fallback" => failures = calls /\ calls = 1 + max_retries
    /\ via = "fast" => calls = 0

\* a step taken after classify has returned or raised invokes nothing
NoInvocationAfterReturn ==
    (pc = "done" \/ pc = "raised") => (calls' = calls /\ sent' = sent)

\* C23: in one classify call the model is invoked at most 1 + max_retries
\* times; classify returns at the first attempt whose output validates and
\* invokes nothing after it; every attempt sends the original, unmodified
\* utterance as the user message, and every attempt after the first uses the
\* system instruction with the strict addition appended.
C23_BoundedAttemptsOriginalUtterance ==
    /\ []AttemptsWellFormed
    /\ [][NoInvocationAfterReturn]_vars

\* the third attempt validates, after two failures, on an utterance that
\* trimming would change
C23_Witness ==
    /\ pc = "done"
    /\ via = "model"
    /\ calls = 1 + max_retries
    /\ failures = max_retries
    /\ Strip(user_input) # user_input
    /\ sent[3].user = user_input

-----------------------------------------------------------------------------
(* The append state of a thread (specification SpecTurns) *)

\* what a turn that does not compact leaves as the messages of its run
AppendOnlyBelowThreshold ==
    \A r \in Requests :
        (TurnRan(r) /\ ~turn[r].compacted) =>
            LET t == turn[r]
                nb == Len(t.before)
                ni == Len(t.inputs)
            IN /\ Len(t.after) = nb + ni + 1
               /\ SubSeq(t.after, 1, nb) = t.before
               /\ \A i \in 1..ni :
                     /\ t.after[nb + i].type = t.inputs[i].type
                     /\ t.after[nb + i].content = t.inputs[i].content
               /\ t.after[nb + ni].content = <<"user", t.n>>
               /\ t.after[nb + ni + 1].type = "ai"
               /\ t.after[nb + ni + 1].content = <<"response", t.n>>
               /\ t.prompt = <<BuildSystemMessage>> \o SubSeq(t.after, 1, nb + ni)
               /\ t.summarize_calls = 0
               /\ Cardinality(Ids(t.after)) = Len(t.after)

\* a turn that no other turn of its thread overlapped and that does not
\* compact ends on the stored messages its start left, and stores them with
\* its response behind
TurnAloneAppends ==
    \A r \in Requests :
        (/\ turn[r].run = "running"
         /\ turn'[r].run = "completed"
         /\ ~turn'[r].overlapped
         /\ ~turn'[r].compacted) =>
            LET stored == memory[turn[r].thread]
                after == memory'[turn[r].thread]
            IN /\ stored = turn[r].state
               /\ Len(after) = Len(stored) + 1
               /\ SubSeq(after, 1, Len(stored)) = stored

\* C24: on a turn that does not compact the stored history is append-only:
\* every message stored before the turn is still stored, unchanged and in the
\* same order, and the history after the turn is the previous history, then
\* the turn's input messages, then exactly one model response, produced from
\* the full stored history plus the new input.  (Turns of one thread that
\* overlap are the caller's responsibility: each stores its own messages.)
C24_AppendOnlyBelowThreshold ==
    /\ []AppendOnlyBelowThreshold
    /\ [][TurnAloneAppends]_vars

\* a thread that already holds two turns takes a turn of two input messages
\* that no other turn overlaps, and its messages are the stored ones
C24_Witness ==
    \E r \in Requests :
        /\ TurnRan(r)
        /\ ~turn[r].compacted
        /\ ~turn[r].overlapped
        /\ Len(turn[r].before) >= 5
        /\ Len(turn[r].inputs) = 2
        /\ Len(turn[r].after) = Len(turn[r].before) + 3
        /\ memory[turn[r].thread] = turn[r].after

\* the stored history is what a compacting turn leaves: a summary, the user
\* message, the response
IsCompacted(msgs) ==
    /\ Len(msgs) = 3
    /\ msgs[1].content[1] = "summary"
    /\ msgs[2].type = "human"
    /\ msgs[3].content[1] = "response"

\* a compacting turn leaves the reset-length history, and a turn of one or two
\* input messages that finds it appends
CompactionResets ==
    \A r \in Requests :
        TurnRan(r) =>
            /\ turn[r].compacted => IsCompacted(turn[r].after)
            /\ (IsCompacted(turn[r].before) /\ Len(turn[r].inputs) <= 2) =>
                  /\ ~turn[r].compacted
                  /\ Len(turn[r].state) - 1 < summary_threshold
                  /\ Len(turn[r].after) = 3 + Len(turn[r].inputs) + 1

\* the turn of one or two input messages that starts on what a compacting turn
\* of its thread has stored is below the threshold
CompactingTurnNotRepeated ==
    \A r, q \in Requests :
        (/\ TurnRan(r)
         /\ turn[r].compacted
         /\ turn[q].run # "running"
         /\ turn'[q].run = "running"
         /\ turn'[q].thread = turn[r].thread
         /\ turn'[q].before = turn[r].after
         /\ Len(turn'[q].inputs) <= 2) =>
            Len(turn'[q].state) - 1 < summary_threshold

\* C25: compaction fires once per threshold crossing: with summary_threshold
\* = 10 and turns of one or two input messages, a turn that compacts is never
\* immediately followed by another compacting turn on the same thread; the
\* thread is back in the append state with a reset-length history.
C25_CompactionOncePerCrossing ==
    /\ []CompactionResets
    /\ [][CompactingTurnNotRepeated]_vars

\* the turn that follows a compaction on its thread: it appends
C25_Witness ==
    \E r \in Requests :
        /\ TurnRan(r)
        /\ IsCompacted(turn[r].before)
        /\ ~turn[r].compacted
        /\ Len(turn[r].inputs) = 2
        /\ Len(turn[r].after) = 6

-----------------------------------------------------------------------------
(* The result cache under requests in flight (specification SpecConc) *)

\* the fusion of the index answers request q was given
FusedBy(q) ==
    Fusion(inflight[q].bm25_docs, inflight[q].vector_docs, DefaultBm25Weight, HybridK)

\* the reranking of that fusion
RerankedBy(q) ==
    LET docs == FusedBy(q)
    IN RerankChunkLevel(docs, [i \in 1..Len(docs) |-> RelevanceScore(docs[i])], RerankK)

\* request q has been given the answers of both indexes
Asked(q) == inflight[q].lex_done /\ inflight[q].vec_done

\* the entry under key is what the last cache.set of the key stored whole
LastWriterWins(key) ==
    IF writes[key].by = "none"
    THEN cache[key] = NoEntry
    ELSE /\ cache[key] # NoEntry
         /\ cache[key].readable
         /\ cache[key].value = writes[key].value
         /\ cache[key].value =
               (IF key = HybridKey THEN FusedBy(writes[key].by)
                ELSE inflight[writes[key].by].result)

\* request r returned a complete result: the whole computation of its stage
\* on the index answers one request was given
CompleteResult(r) ==
    \E q \in Requests :
        /\ Asked(q)
        /\ inflight[r].fused => q = r
        /\ inflight[r].result =
              (IF inflight[r].op = "hybrid" THEN FusedBy(q) ELSE RerankedBy(q))

\* C26: the result cache is safe under concurrent requests without locking:
\* two requests running concurrently on a cold cache and interleaving at any
\* suspension point both return a complete result; the entry left in the
\* cache is the result one of them computed (the last writer's); and when the
\* indexes answered both the same, the two results and the entry are identical.
C26_ConcurrentRequestsLastWriterWins ==
    /\ \A key \in CacheKeys : LastWriterWins(key)
    /\ \A r \in Requests : inflight[r].pc = "done" => CompleteResult(r)
    /\ (\A r \in Requests : inflight[r].pc = "done") =>
          \A r, q \in Requests :
              (/\ inflight[r].op = inflight[q].op
               /\ \A a, b \in { x \in Requests : Asked(x) } :
                     /\ inflight[a].bm25_docs = inflight[b].bm25_docs
                     /\ inflight[a].vector_docs = inflight[b].vector_docs) =>
                  /\ inflight[r].result = inflight[q].result
                  /\ cache[KeyOf(inflight[r])] # NoEntry
                  /\ cache[KeyOf(inflight[r])].value = inflight[r].result

\* both requests ran ReRank.query, both missed both keys and computed, the
\* indexes answered them differently, both stored under the rerank key, and
\* the entry left is the last writer's result, which is not the other's
C26_Witness ==
    /\ \A r \in Requests :
          /\ inflight[r].pc = "done"
          /\ inflight[r].op = "rerank"
          /\ inflight[r].fused
          /\ inflight[r].reranked
    /\ inflight["A"].result # inflight["B"].result
    /\ cache[RerankKey].value = inflight[writes[RerankKey].by].result
    /\ writes[HybridKey].by # writes[RerankKey].by

-----------------------------------------------------------------------------
(* Timeouts of the generation call (specification SpecLLM) *)

\* the error is a timeout of the call: the client's transport timing out, or
\* the provider answering that its deadline was exceeded
IsTimeout(e) == e.name \in {"timed out", "server 504 DEADLINE_EXCEEDED"}

\* C27: a timeout of the generation call is a transient failure: an attempt
\* that times out before the last one is followed by a wait of the backoff
\* policy and another attempt, and the call raises on a timeout only when its
\* last attempt timed out.
C27_TimeoutRetried ==
    \A w \in Workers :
      gen[w].op # "none" =>
        \A i \in 1..Len(gen[w].errors) :
            (IsTimeout(gen[w].errors[i]) /\ i < response_max_retries) =>
                /\ ~(gen[w].status = "raised" /\ gen[w].value = "RuntimeError"
                     /\ Len(gen[w].errors) = i)
                /\ Len(gen[w].sleeps) >= i
                /\ gen[w].sleeps[i] = Delay(i - 1)

-----------------------------------------------------------------------------
(* The length of the stored history (specification SpecTurns) *)

\* max(3, summary_threshold + 1)
HistoryBound == IF 3 > summary_threshold + 1 THEN 3 ELSE summary_threshold + 1

\* C28: the stored history of a thread is bounded: after every completed
\* turn, for any sequence of turns and any number of input messages per turn,
\* the number of stored messages is at most max(3, summary_threshold + 1).
C28_StoredHistoryBounded ==
    \A r \in Requests :
        TurnRan(r) => Len(turn[r].after) <= HistoryBound

\* a completed turn that leaves the longest history, on a thread that a
\* compaction and a failed turn have gone over
C28_Witness ==
    \E r \in Requests :
        LET after == turn[r].after
        IN /\ TurnRan(r)
           /\ ~turn[r].compacted
           /\ memory[turn[r].thread] = after
           /\ Len(after) = HistoryBound
           /\ \E i \in 1..Len(after) : after[i].content[1] = "summary"
           /\ \E i \in 2..Len(after) :
                 after[i].type = "human" /\ after[i - 1].type = "human"

-----------------------------------------------------------------------------
(* Failing stages and the cache (specification SpecOutage) *)

\* the fusion of two index answers, and its reranking
FusionOf(source) == Fusion(source[1], source[2], DefaultBm25Weight, HybridK)

RerankOf(docs) ==
    RerankChunkLevel(docs, [i \in 1..Len(docs) |-> RelevanceScore(docs[i])], RerankK)

\* a call that raised returned nothing and stored nothing under its key; a
\* call whose index query failed stored nothing under the fusion key either
FailedCallWroteNothing(me) ==
    /\ me.result = <<>>
    /\ me.op = "hybrid" => me.wrote_hybrid = NoEntry
    /\ me.op = "rerank" => me.wrote_rerank = NoEntry
    /\ me.down \in {"lexical", "vector"} =>
          (~me.fused /\ me.wrote_hybrid = NoEntry)
    /\ me.down = "model" => (me.model_calls = 1 /\ me.docs # <<>>)

\* every stored list is the whole result of its stage on the answers of both
\* indexes, never the fusion of one answer
StoredListsAreWhole ==
    \A key \in CacheKeys :
        cache[key] # NoEntry =>
            /\ Len(cache[key].source) = 2
            /\ cache[key].value =
                  (IF key = RerankKey THEN RerankOf(FusionOf(cache[key].source))
                   ELSE FusionOf(cache[key].source))

\* a call that found nothing to serve under its key and returned has computed
\* the result of its stage anew
RecomputedWhenNothingStored(me) ==
    ~Servable(me.pre, me.t) =>
        /\ me.op = "hybrid" =>
              /\ me.fused
              /\ me.lex_queries = 1 /\ me.vec_queries = 1
              /\ me.result = FusionOf(<<me.bm25_docs, me.vector_docs>>)
        /\ me.op = "rerank" =>
              /\ me.fusion_calls = 1
              /\ me.reranked
              /\ me.result = RerankOf(me.docs)
              /\ ~Servable(me.pre_hybrid, me.t) =>
                    me.docs = FusionOf(<<me.bm25_docs, me.vector_docs>>)

\* C29: a failed stage writes nothing to its cache: when an index query fails
\* in HybridSearch.query the call raises and nothing is stored under the
\* fusion key; when the fusion or the relevance model fails in ReRank.query
\* the call raises and nothing is stored under the rerank key; a later call
\* for the same query recomputes instead of serving a partial result.
C29_FailedStageWritesNothing ==
    /\ StoredListsAreWhole
    /\ \A r \in Requests :
          /\ inflight[r].pc = "raised" => FailedCallWroteNothing(inflight[r])
          /\ inflight[r].pc = "done" => RecomputedWhenNothingStored(inflight[r])

\* ReRank.query raised because the relevance model was down, after its fusion
\* had been computed and stored; the other requester's ReRank.query, begun
\* after that, found no rerank entry, was served the fusion and reranked it
C29_Witness ==
    \E r, q \in Requests :
        /\ inflight[r].op = "rerank"
        /\ inflight[r].pc = "raised"
        /\ inflight[r].down = "model"
        /\ inflight[r].fused
        /\ inflight[q].op = "rerank"
        /\ inflight[q].pc = "done"
        /\ inflight[q].pre = NoEntry
        /\ inflight[q].pre_hybrid = inflight[r].wrote_hybrid
        /\ inflight[q].lex_queries = 0
        /\ inflight[q].reranked

-----------------------------------------------------------------------------
(* Passages without product_id (specification SpecIngested) *)

\* the passages the call was given
GivenPassages ==
    IF inp.fn = "fuse" THEN Range(inp.bm25_docs) \cup Range(inp.vector_docs)
    ELSE Range(inp.docs)

\* C30: passages whose metadata carries no product_id all share one
\* aggregation key, so fusion and reranking return at most one passage for all
\* of them together; on a corpus in which no passage has a product_id (as the
\* ingestion script writes it) every fusion and rerank result has length at
\* most 1, whatever topK is.
C30_PassagesWithoutProductIdCollapse ==
    out # NoOut =>
        /\ \A d \in IngestedCorpus : Pid(d) = PyNone
        /\ CountPid(out.result, PyNone) <= 1
        /\ GivenPassages \subseteq IngestedCorpus => Len(out.result) <= 1
        /\ (GivenPassages # {} /\ GivenPassages \subseteq IngestedCorpus) =>
              Len(out.result) = 1

\* the indexes answer with chunks of two different products of the ingested
\* corpus, topK is 2, and the fusion returns one passage
C30_Witness ==
    /\ out.fn = "fuse"
    /\ inp.k = 2
    /\ GivenPassages = IngestedCorpus
    /\ Len(inp.bm25_docs) = 2
    /\ Len(out.result) = 1

====
